---- MODULE Spec2Model ----
(***************************************************************************)
(* Verification model of the fortia-api backend.                           *)
(*                                                                         *)
(* Part 1: the daily-quest / streak engine.  The table daily_quests is     *)
(* written by five request handlers: GET/POST/PUT of the daily-quests      *)
(* route, POST of the weights route and POST of the activities route.      *)
(* Every handler is a sequence of SQL statements with awaits in between,   *)
(* so one action of the model is one SQL statement of one request (the     *)
(* JavaScript that follows a statement up to the next await, including the *)
(* response, belongs to the same action).  Requests run in the slots       *)
(* Procs; the statements of different requests interleave freely.  The     *)
(* step that ends a request publishes its response in the variable         *)
(* response, which therefore describes the response together with the      *)
(* state of the tables at the moment the request finished.                 *)
(*                                                                         *)
(* Calendar dates are day numbers; the day before d is d - 1 (the route    *)
(* computes it with Date arithmetic on a UTC server).  The column name     *)
(* interpolated into the POST statements is read as the text of the        *)
(* statement says: the column named by questType.                          *)
(*                                                                         *)
(* Part 2: the workout side.  The session / exercise completion tracker    *)
(* (workout-session route), the muscle-volume aggregator                   *)
(* (muscleBalanceUtils), the program generator (generate-workout-program   *)
(* route) and the workout-programs route.  Requests of part 2 run in the   *)
(* slots wreq and publish their response in wresponse, exactly as in part  *)
(* 1.  Each part has its own specifications; the variables of the other    *)
(* part stay at their initial values.  The pure functions                  *)
(* calculateMuscleVolume and calculateWorkoutDates are operators; a        *)
(* specification that checks one of them draws the arguments in its        *)
(* initial state (variable call) and applies the function in one step      *)
(* (variable result).                                                      *)
(***************************************************************************)
EXTENDS Integers, FiniteSets, Sequences, TLC

\* ----------------------------------------------------------------- bounds
\* number of requests the server receives in a behaviour
MaxRequests == 3

\* one user key: every statement on daily_quests filters on clerk_id
Users == {1}
\* two consecutive calendar days, D and D + 1
Dates == {1, 2}
\* two request slots: at most two requests are in flight at a time
Procs == {1, 2}

\* -------------------------------------------------------------- constants
validQuestTypes == {"weight_logged", "meal_logged", "exercise_logged"}
QuestTypeInputs == validQuestTypes \cup {"invalid"}

HTTP_OK == 200
HTTP_CREATED == 201
HTTP_BAD_REQUEST == 400
HTTP_NOT_FOUND == 404
HTTP_CONFLICT == 409
HTTP_INTERNAL == 500
HTTP_UNAVAILABLE == 503

DEFAULT_STREAK_DAY == 1

VARIABLES
  daily_quests,  \* the table daily_quests: a set of rows
  weights,       \* the table weights (columns id, clerk_id)
  activities,    \* the table activities (columns id, clerk_id)
  req,           \* the request running in each slot, with its local variables
  response,      \* the response sent by the latest step, NoResponse if none
  marked,        \* history: the (user, date) pairs the PUT handler was called on
  started,       \* number of requests received so far
  workout_programs,        \* the table workout_programs
  workout_sessions,        \* the table workout_sessions
  workout_exercises,       \* the table workout_exercises
  muscle_balance_history,  \* the table muscle_balance_history
  workout_feedback,        \* the table workout_feedback
  ai_workout_decisions,    \* the table ai_workout_decisions
  exercise_video_cache,    \* the table exercise_video_cache
  wreq,          \* the workout request running in each slot
  wresponse,     \* the response sent by the latest workout step
  today,         \* the calendar day of the server clock (new Date())
  call,          \* the arguments of a pure-function call
  result,        \* what the call returned, NotCalled before it ran
  rateLimitMap,  \* the usage maps of the analysis handlers, by handler and user
  areq,          \* the analysis request running in each slot
  aresponse,     \* the response sent by the latest analysis step
  admittedToday  \* history: requests the limiter admitted on the day `today`

\* the variables of part 1 (the request counter started is shared)
questVars == <<daily_quests, weights, activities, req, response, marked>>
\* the tables of part 2
workoutTables ==
  <<workout_programs, workout_sessions, workout_exercises,
    muscle_balance_history, workout_feedback, ai_workout_decisions,
    exercise_video_cache>>
\* the variables of part 2
workoutVars == <<workoutTables, wreq, wresponse, today, call, result>>

\* the variables of part 3
analysisVars == <<rateLimitMap, areq, aresponse, admittedToday>>

vars == <<questVars, started, workoutVars, analysisVars>>

\* ------------------------------------------------------------ the tables
\* A row of daily_quests with the column defaults of the table definition.
QuestRow(id, u, d) ==
  [id |-> id, clerk_id |-> u, date |-> d,
   weight_logged |-> FALSE, meal_logged |-> FALSE, exercise_logged |-> FALSE,
   day_completed |-> FALSE, streak_day |-> DEFAULT_STREAK_DAY]

NoRow == [id |-> 0, clerk_id |-> 0, date |-> 0,
          weight_logged |-> FALSE, meal_logged |-> FALSE, exercise_logged |-> FALSE,
          day_completed |-> FALSE, streak_day |-> 0]

\* SERIAL id: rows are never deleted, so the next id is the row count + 1.
NextQuestId(t) == Cardinality(t) + 1

\* SELECT * FROM daily_quests WHERE clerk_id = u AND date = d
SelectQuest(t, u, d) == {r \in t : r.clerk_id = u /\ r.date = d}

\* result[0] of a non-empty result
First(rows) == CHOOSE r \in rows : \A o \in rows : r.id <= o.id

\* variant: the table has no unique constraint on (clerk_id, date)
UniqueViolation_Never(t, u, d) == FALSE

\* UNIQUE(clerk_id, date): does inserting a row for (u, d) violate it?
UniqueViolation(t, u, d) == SelectQuest(t, u, d) # {}

\* INSERT INTO daily_quests ... (the constraint is checked by the caller)
InsertQuest(t, row) == t \cup {row}

\* UPDATE daily_quests SET col = true WHERE clerk_id = u AND date = d
UpdateQuest(t, u, d, col) ==
  {IF r.clerk_id = u /\ r.date = d THEN [r EXCEPT ![col] = TRUE] ELSE r : r \in t}

\* variant: on conflict the row is replaced by the inserted one, so the
\* other columns fall back to their defaults
UpsertFlag_Replace(t, u, d, col) ==
  IF UniqueViolation(t, u, d)
    THEN {IF r.clerk_id = u /\ r.date = d
            THEN [QuestRow(r.id, u, d) EXCEPT ![col] = TRUE] ELSE r : r \in t}
    ELSE InsertQuest(t, [QuestRow(NextQuestId(t), u, d) EXCEPT ![col] = TRUE])

\* INSERT ... (clerk_id, date, col) VALUES (u, d, true)
\*   ON CONFLICT (clerk_id, date) DO UPDATE SET col = true
UpsertFlag(t, u, d, col) ==
  IF UniqueViolation(t, u, d)
    THEN UpdateQuest(t, u, d, col)
    ELSE InsertQuest(t, [QuestRow(NextQuestId(t), u, d) EXCEPT ![col] = TRUE])

\* variant: || in place of &&
AllCompleted_AnyFlag(quest) ==
  quest.weight_logged \/ quest.meal_logged \/ quest.exercise_logged

\* quest.weight_logged && quest.meal_logged && quest.exercise_logged
AllCompleted(quest) ==
  quest.weight_logged /\ quest.meal_logged /\ quest.exercise_logged

\* variant: the negation of day_completed is missing
NeedsCompletion_MissingNot(rows) ==
  rows # {} /\ AllCompleted(First(rows)) /\ First(rows).day_completed

\* if (rows.length > 0) { ... if (allCompleted && !quest.day_completed) ... }
NeedsCompletion(rows) ==
  rows # {} /\ AllCompleted(First(rows)) /\ ~First(rows).day_completed

\* previousQuest.length > 0 && previousQuest[0].day_completed
\*   ? previousQuest[0].streak_day + 1 : 1
CurrentStreak(previousQuest) ==
  IF previousQuest # {} /\ First(previousQuest).day_completed
    THEN First(previousQuest).streak_day + 1
    ELSE 1

\* previousDay.setDate(previousDay.getDate() - 1)
PreviousDate(d) == d - 1

\* handleDatabaseError: the status chosen from the text of the error
HandleDatabaseError(kind) ==
  IF kind = "duplicate key" THEN HTTP_CONFLICT
  ELSE IF kind = "connection" THEN HTTP_UNAVAILABLE
  ELSE HTTP_INTERNAL

ErrorKinds == {"connection", "other"}

\* ------------------------------------------------------------- requests
Idle ==
  [op |-> "none", pc |-> "idle", clerk |-> 0, date |-> 0, questType |-> "none",
   found |-> FALSE, streak |-> 0, record |-> NoRow, rowId |-> 0]

Running(r) == r.pc # "idle"

NewRequest(op, u, d, q) ==
  [Idle EXCEPT !.op = op, !.clerk = u, !.date = d, !.questType = q]

NoResponse ==
  [op |-> "none", clerk |-> 0, date |-> 0, questType |-> "none",
   status |-> 0, data |-> NoRow, rowId |-> 0, questError |-> FALSE,
   insertRejected |-> FALSE]

\* NextResponse.json(...): the response to request r, a status and a payload
\* row; rowId is the primary row a logging request persisted, questError
\* whether its catch (questError) block ran, insertRejected whether its
\* INSERT INTO daily_quests was rejected by the unique constraint.
Respond(r, status, data) ==
  [op |-> r.op, clerk |-> r.clerk, date |-> r.date, questType |-> r.questType,
   status |-> status, data |-> data, rowId |-> r.rowId, questError |-> FALSE,
   insertRejected |-> FALSE]

\* The INSERT of request r threw 'duplicate key value violates unique
\* constraint': catch (error) { return handleDatabaseError(error) }
RejectInsert(r) ==
  [Respond(r, HandleDatabaseError("duplicate key"), NoRow)
     EXCEPT !.insertRejected = TRUE]

\* slot p goes on with local state r / ends with response resp
Continue(p, r) == req' = [req EXCEPT ![p] = r] /\ response' = NoResponse
Finish(p, resp) == req' = [req EXCEPT ![p] = Idle] /\ response' = resp

\* A new request takes the first free slot (the slots are interchangeable).
CanStart(p) ==
  /\ ~Running(req[p])
  /\ \A o \in Procs : o < p => Running(req[o])
  /\ started < MaxRequests

\* ------------------------------------------------- part 2 at rest
\* no workout request in a slot / no workout response / no call made
WorkoutIdle == [op |-> "none", pc |-> "idle"]
NoWorkoutResponse ==
  [op |-> "none", status |-> 0, clerk |-> 0, session |-> 0, markedIn |-> 0,
   programId |-> 0, details |-> "none", writes |-> 0]
NotCalled == [fn |-> "none"]

\* part 1 before its first request
NoQuests ==
  /\ daily_quests = {}
  /\ weights = {}
  /\ activities = {}
  /\ req = [p \in Procs |-> Idle]
  /\ response = NoResponse
  /\ marked = {}

\* part 2 with empty tables and no request
NoWorkoutRequests ==
  /\ workout_programs = {}
  /\ workout_sessions = {}
  /\ workout_exercises = {}
  /\ muscle_balance_history = {}
  /\ workout_feedback = {}
  /\ ai_workout_decisions = {}
  /\ exercise_video_cache = {}
  /\ wreq = [p \in Procs |-> WorkoutIdle]
  /\ wresponse = NoWorkoutResponse
  /\ today = 1

NoWorkouts ==
  /\ NoWorkoutRequests
  /\ call = NotCalled
  /\ result = NotCalled

\* part 3 with empty usage maps and no request
AnalysisHandlers == {"meal", "exercise", "recipe", "breakdown"}
\* the handlers with a daily quota
LimitedHandlers == {"meal", "exercise"}
NoUsage == [count |-> 0, date |-> 0]
AnalysisIdle == [op |-> "none", pc |-> "idle"]
NoAnalysisResponse ==
  [op |-> "none", status |-> 0, user |-> 0, attempts |-> 0, error |-> "none"]
NoAnalysis ==
  /\ rateLimitMap = [h \in LimitedHandlers |-> [u \in Users |-> NoUsage]]
  /\ areq = [p \in Procs |-> AnalysisIdle]
  /\ aresponse = NoAnalysisResponse
  /\ admittedToday = [h \in LimitedHandlers |-> [u \in Users |-> 0]]

Init ==
  /\ daily_quests = {}
  /\ weights = {}
  /\ activities = {}
  /\ req = [p \in Procs |-> Idle]
  /\ response = NoResponse
  /\ marked = {}
  /\ started = 0
  /\ NoWorkouts
  /\ NoAnalysis

\* ------------------------------------------ GET /api/daily-quests (read)
\* getOrCreateTodayQuest: first SELECT; an existing row is returned as is.
Get_Select(p, u, d) ==
  /\ CanStart(p)
  /\ started' = started + 1
  /\ LET questRecord == SelectQuest(daily_quests, u, d)
         r == NewRequest("get", u, d, "none")
     IN IF questRecord # {}
          THEN Finish(p, Respond(r, HTTP_OK, First(questRecord)))
          ELSE Continue(p, [r EXCEPT !.pc = "prev"])
  /\ UNCHANGED <<daily_quests, weights, activities, marked>>
  /\ UNCHANGED <<workoutVars, analysisVars>>

\* SELECT day_completed, streak_day of the previous day; currentStreak
Get_SelectPrevious(p) ==
  /\ req[p].op = "get" /\ req[p].pc = "prev"
  /\ LET previousQuest ==
           SelectQuest(daily_quests, req[p].clerk, PreviousDate(req[p].date))
     IN Continue(p, [req[p] EXCEPT !.pc = "insert",
                                   !.streak = CurrentStreak(previousQuest)])
  /\ UNCHANGED <<daily_quests, weights, activities, marked, started>>
  /\ UNCHANGED <<workoutVars, analysisVars>>

\* INSERT INTO daily_quests (clerk_id, date, streak_day): a plain insert,
\* rejected by the unique constraint when another request created the row.
Get_Insert(p) ==
  /\ req[p].op = "get" /\ req[p].pc = "insert"
  /\ IF UniqueViolation(daily_quests, req[p].clerk, req[p].date)
       THEN /\ Finish(p, RejectInsert(req[p]))
            /\ UNCHANGED daily_quests
       ELSE /\ daily_quests' =
                 InsertQuest(daily_quests,
                   [QuestRow(NextQuestId(daily_quests), req[p].clerk, req[p].date)
                      EXCEPT !.streak_day = req[p].streak])
            /\ Continue(p, [req[p] EXCEPT !.pc = "refetch"])
  /\ UNCHANGED <<weights, activities, marked, started>>
  /\ UNCHANGED <<workoutVars, analysisVars>>

\* Fetch the newly created record and return it (or the literal default).
Get_Refetch(p) ==
  /\ req[p].op = "get" /\ req[p].pc = "refetch"
  /\ LET questRecord == SelectQuest(daily_quests, req[p].clerk, req[p].date)
     IN Finish(p, Respond(req[p], HTTP_OK,
                    IF questRecord # {} THEN First(questRecord)
                    ELSE QuestRow(0, req[p].clerk, req[p].date)))
  /\ UNCHANGED <<daily_quests, weights, activities, marked, started>>
  /\ UNCHANGED <<workoutVars, analysisVars>>

\* ------------------------------ POST /api/daily-quests (recordQuestAction)
\* if (!validQuestTypes.includes(questType)) return badRequest
Post_InvalidType(p, u, q, d) ==
  /\ CanStart(p)
  /\ q \notin validQuestTypes
  /\ started' = started + 1
  /\ Finish(p, Respond(NewRequest("post", u, d, q), HTTP_BAD_REQUEST, NoRow))
  /\ UNCHANGED <<daily_quests, weights, activities, marked>>
  /\ UNCHANGED <<workoutVars, analysisVars>>

\* first SELECT: does the row exist?
Post_Select(p, u, q, d) ==
  /\ CanStart(p)
  /\ q \in validQuestTypes
  /\ started' = started + 1
  /\ Continue(p, [NewRequest("post", u, d, q) EXCEPT
                    !.pc = "write",
                    !.found = SelectQuest(daily_quests, u, d) # {}])
  /\ UNCHANGED <<daily_quests, weights, activities, marked>>
  /\ UNCHANGED <<workoutVars, analysisVars>>

\* the row of INSERT INTO daily_quests (clerk_id, date, questType)
\*   VALUES (clerkId, questDate, true): streak_day takes the column default
PostInsertRow(t, u, q, d) == [QuestRow(NextQuestId(t), u, d) EXCEPT ![q] = TRUE]

\* variant: SET questType = NOT questType
PostUpdate_Toggle(t, u, q, d) ==
  {IF r.clerk_id = u /\ r.date = d THEN [r EXCEPT ![q] = ~r[q]] ELSE r : r \in t}

\* UPDATE daily_quests SET questType = true, updated_at = NOW()
PostUpdate(t, u, q, d) == UpdateQuest(t, u, d, q)

\* UPDATE daily_quests SET day_completed = true, updated_at = NOW()
MarkCompleted(t, u, d) == UpdateQuest(t, u, d, "day_completed")

\* questRecord.length === 0: INSERT (clerk_id, date, questType) VALUES (.., true)
Post_Insert(p) ==
  /\ req[p].op = "post" /\ req[p].pc = "write" /\ ~req[p].found
  /\ IF UniqueViolation(daily_quests, req[p].clerk, req[p].date)
       THEN /\ Finish(p, RejectInsert(req[p]))
            /\ UNCHANGED daily_quests
       ELSE /\ daily_quests' =
                 InsertQuest(daily_quests,
                   PostInsertRow(daily_quests, req[p].clerk, req[p].questType,
                                 req[p].date))
            /\ Continue(p, [req[p] EXCEPT !.pc = "reread", !.found = FALSE])
  /\ UNCHANGED <<weights, activities, marked, started>>
  /\ UNCHANGED <<workoutVars, analysisVars>>

\* else: UPDATE daily_quests SET questType = true
Post_Update(p) ==
  /\ req[p].op = "post" /\ req[p].pc = "write" /\ req[p].found
  /\ daily_quests' =
       PostUpdate(daily_quests, req[p].clerk, req[p].questType, req[p].date)
  /\ Continue(p, [req[p] EXCEPT !.pc = "reread", !.found = FALSE])
  /\ UNCHANGED <<weights, activities, marked, started>>
  /\ UNCHANGED <<workoutVars, analysisVars>>

\* the payload of the POST response: data: updatedRecord[0]
PostResponseData(updatedRecord) ==
  IF updatedRecord # {} THEN First(updatedRecord) ELSE NoRow

\* updatedRecord = SELECT *; decide whether day_completed must be set
Post_Reread(p) ==
  /\ req[p].op = "post" /\ req[p].pc = "reread"
  /\ LET updatedRecord == SelectQuest(daily_quests, req[p].clerk, req[p].date)
     IN IF NeedsCompletion(updatedRecord)
          THEN Continue(p, [req[p] EXCEPT !.pc = "complete",
                                          !.record = First(updatedRecord)])
          ELSE Finish(p, Respond(req[p], HTTP_OK, PostResponseData(updatedRecord)))
  /\ UNCHANGED <<daily_quests, weights, activities, marked, started>>
  /\ UNCHANGED <<workoutVars, analysisVars>>

\* UPDATE daily_quests SET day_completed = true; respond with updatedRecord[0]
Post_Complete(p) ==
  /\ req[p].op = "post" /\ req[p].pc = "complete"
  /\ daily_quests' = MarkCompleted(daily_quests, req[p].clerk, req[p].date)
  /\ Finish(p, Respond(req[p], HTTP_OK, PostResponseData({req[p].record})))
  /\ UNCHANGED <<weights, activities, marked, started>>
  /\ UNCHANGED <<workoutVars, analysisVars>>

\* The table after one POST request that runs alone from table t: its
\* statements in program order with no other request in between.
RecordQuestAction(t, u, q, d) ==
  LET written == IF SelectQuest(t, u, d) = {}
                   THEN InsertQuest(t, PostInsertRow(t, u, q, d))
                   ELSE PostUpdate(t, u, q, d)
  IN IF NeedsCompletion(SelectQuest(written, u, d))
       THEN MarkCompleted(written, u, d)
       ELSE written

\* ---------------------------------- PUT /api/daily-quests (markDayComplete)
\* UPDATE daily_quests SET day_completed = true WHERE clerk_id AND date
Put_Update(p, u, d) ==
  /\ CanStart(p)
  /\ started' = started + 1
  /\ daily_quests' = MarkCompleted(daily_quests, u, d)
  /\ marked' = marked \cup {<<u, d>>}
  /\ Finish(p, Respond(NewRequest("put", u, d, "none"), HTTP_OK, NoRow))
  /\ UNCHANGED <<weights, activities>>
  /\ UNCHANGED <<workoutVars, analysisVars>>

\* --------------------------------------- POST /api/weight (weight logging)
\* INSERT INTO weights / activities: the primary row of a logging request
LogRow(t, u) == [id |-> Cardinality(t) + 1, clerk_id |-> u]

\* INSERT INTO weights (weight, date, clerk_id, created_at), then the
\* try { SELECT users; UPDATE users SET bmr, tdee, ... } catch { log } block:
\* it reads and writes only the users table, which no statement of the
\* quest engine touches, and an error in it is caught and logged, so the
\* handler reaches the quest upsert either way.
Weight_Insert(p, u, d) ==
  /\ CanStart(p)
  /\ started' = started + 1
  /\ weights' = weights \cup {LogRow(weights, u)}
  /\ Continue(p, [NewRequest("weight", u, d, "weight_logged") EXCEPT
                    !.pc = "upsert", !.rowId = LogRow(weights, u).id])
  /\ UNCHANGED <<daily_quests, activities, marked>>
  /\ UNCHANGED <<workoutVars, analysisVars>>

\* INSERT INTO daily_quests (.., weight_logged) ON CONFLICT DO UPDATE
Weight_Upsert(p) ==
  /\ req[p].op = "weight" /\ req[p].pc = "upsert"
  /\ daily_quests' =
       UpsertFlag(daily_quests, req[p].clerk, req[p].date, "weight_logged")
  /\ Continue(p, [req[p] EXCEPT !.pc = "check"])
  /\ UNCHANGED <<weights, activities, marked, started>>
  /\ UNCHANGED <<workoutVars, analysisVars>>

\* questStatus = SELECT flags; decide whether day_completed must be set
Weight_Check(p) ==
  /\ req[p].op = "weight" /\ req[p].pc = "check"
  /\ LET questStatus == SelectQuest(daily_quests, req[p].clerk, req[p].date)
     IN IF NeedsCompletion(questStatus)
          THEN Continue(p, [req[p] EXCEPT !.pc = "complete"])
          ELSE Finish(p, Respond(req[p], HTTP_CREATED, NoRow))
  /\ UNCHANGED <<daily_quests, weights, activities, marked, started>>
  /\ UNCHANGED <<workoutVars, analysisVars>>

\* UPDATE daily_quests SET day_completed = true; 201 response
Weight_Complete(p) ==
  /\ req[p].op = "weight" /\ req[p].pc = "complete"
  /\ daily_quests' = MarkCompleted(daily_quests, req[p].clerk, req[p].date)
  /\ Finish(p, Respond(req[p], HTTP_CREATED, NoRow))
  /\ UNCHANGED <<weights, activities, marked, started>>
  /\ UNCHANGED <<workoutVars, analysisVars>>

\* ---------------------------------- POST /api/activities (activity logging)
\* INSERT INTO activities ...; isActualExercise decides on the quest step
Activity_Insert(p, u, d, isActualExercise) ==
  /\ CanStart(p)
  /\ started' = started + 1
  /\ activities' = activities \cup {LogRow(activities, u)}
  /\ LET r == [NewRequest("activity", u, d, "exercise_logged") EXCEPT
                 !.rowId = LogRow(activities, u).id]
     IN IF isActualExercise
          THEN Continue(p, [r EXCEPT !.pc = "upsert"])
          ELSE Finish(p, Respond(r, HTTP_CREATED, NoRow))
  /\ UNCHANGED <<daily_quests, weights, marked>>
  /\ UNCHANGED <<workoutVars, analysisVars>>

\* INSERT INTO daily_quests (.., exercise_logged) ON CONFLICT DO UPDATE
Activity_Upsert(p) ==
  /\ req[p].op = "activity" /\ req[p].pc = "upsert"
  /\ daily_quests' =
       UpsertFlag(daily_quests, req[p].clerk, req[p].date, "exercise_logged")
  /\ Continue(p, [req[p] EXCEPT !.pc = "check"])
  /\ UNCHANGED <<weights, activities, marked, started>>
  /\ UNCHANGED <<workoutVars, analysisVars>>

\* questStatus = SELECT flags; decide whether day_completed must be set
Activity_Check(p) ==
  /\ req[p].op = "activity" /\ req[p].pc = "check"
  /\ LET questStatus == SelectQuest(daily_quests, req[p].clerk, req[p].date)
     IN IF NeedsCompletion(questStatus)
          THEN Continue(p, [req[p] EXCEPT !.pc = "complete"])
          ELSE Finish(p, Respond(req[p], HTTP_CREATED, NoRow))
  /\ UNCHANGED <<daily_quests, weights, activities, marked, started>>
  /\ UNCHANGED <<workoutVars, analysisVars>>

\* UPDATE daily_quests SET day_completed = true; 201 response
Activity_Complete(p) ==
  /\ req[p].op = "activity" /\ req[p].pc = "complete"
  /\ daily_quests' = MarkCompleted(daily_quests, req[p].clerk, req[p].date)
  /\ Finish(p, Respond(req[p], HTTP_CREATED, NoRow))
  /\ UNCHANGED <<weights, activities, marked, started>>
  /\ UNCHANGED <<workoutVars, analysisVars>>

\* ------------------------------------------------------ database failures
\* A statement of the quest route throws: catch -> handleDatabaseError.
Quest_DbError(p, kind) ==
  /\ req[p].op \in {"get", "post"} /\ Running(req[p])
  /\ Finish(p, Respond(req[p], HandleDatabaseError(kind), NoRow))
  /\ UNCHANGED <<daily_quests, weights, activities, marked, started>>
  /\ UNCHANGED <<workoutVars, analysisVars>>

\* variant: the catch block rethrows, so the outer catch answers 400
OnQuestError_Propagate(r) ==
  [Respond(r, HTTP_BAD_REQUEST, NoRow) EXCEPT !.questError = TRUE]

\* catch (questError) { console.error(...) }: the error is logged and the
\* handler goes on to its success response.
OnQuestError(r) ==
  [Respond(r, HTTP_CREATED, NoRow) EXCEPT !.questError = TRUE]

\* The quest upsert, re-read or day_completed update of weight logging throws.
Weight_QuestError(p) ==
  /\ req[p].op = "weight" /\ req[p].pc \in {"upsert", "check", "complete"}
  /\ Finish(p, OnQuestError(req[p]))
  /\ UNCHANGED <<daily_quests, weights, activities, marked, started>>
  /\ UNCHANGED <<workoutVars, analysisVars>>

\* The quest upsert, re-read or day_completed update of activity logging throws.
Activity_QuestError(p) ==
  /\ req[p].op = "activity" /\ req[p].pc \in {"upsert", "check", "complete"}
  /\ Finish(p, OnQuestError(req[p]))
  /\ UNCHANGED <<daily_quests, weights, activities, marked, started>>
  /\ UNCHANGED <<workoutVars, analysisVars>>

\* --------------------------------------------------------- specifications
Next ==
  \/ \E p \in Procs, u \in Users, d \in Dates : Get_Select(p, u, d)
  \/ \E p \in Procs : Get_SelectPrevious(p)
  \/ \E p \in Procs : Get_Insert(p)
  \/ \E p \in Procs : Get_Refetch(p)
  \/ \E p \in Procs, u \in Users, q \in QuestTypeInputs, d \in Dates :
       Post_InvalidType(p, u, q, d)
  \/ \E p \in Procs, u \in Users, q \in QuestTypeInputs, d \in Dates :
       Post_Select(p, u, q, d)
  \/ \E p \in Procs : Post_Insert(p)
  \/ \E p \in Procs : Post_Update(p)
  \/ \E p \in Procs : Post_Reread(p)
  \/ \E p \in Procs : Post_Complete(p)
  \/ \E p \in Procs, u \in Users, d \in Dates : Put_Update(p, u, d)
  \/ \E p \in Procs, u \in Users, d \in Dates : Weight_Insert(p, u, d)
  \/ \E p \in Procs : Weight_Upsert(p)
  \/ \E p \in Procs : Weight_Check(p)
  \/ \E p \in Procs : Weight_Complete(p)
  \/ \E p \in Procs, u \in Users, d \in Dates, ex \in BOOLEAN :
       Activity_Insert(p, u, d, ex)
  \/ \E p \in Procs : Activity_Upsert(p)
  \/ \E p \in Procs : Activity_Check(p)
  \/ \E p \in Procs : Activity_Complete(p)

DbFailure ==
  \/ \E p \in Procs, kind \in ErrorKinds : Quest_DbError(p, kind)
  \/ \E p \in Procs : Weight_QuestError(p)
  \/ \E p \in Procs : Activity_QuestError(p)

NextFault == Next \/ DbFailure

\* Every statement succeeds (unique-constraint rejections included).
Spec == Init /\ [][Next]_vars

\* A statement of an in-flight request may also fail with a database error.
SpecFault == Init /\ [][NextFault]_vars

\* ------------------------------------------------------------ properties
NoneRunning == \A p \in Procs : ~Running(req[p])

\* the stored rows of (u, d)
StoredRows(u, d) == {r \in daily_quests : r.clerk_id = u /\ r.date = d}

\* the columns of a table the quest engine decides: everything but the id
Stored(t) ==
  {[clerk_id |-> r.clerk_id, date |-> r.date, weight_logged |-> r.weight_logged,
    meal_logged |-> r.meal_logged, exercise_logged |-> r.exercise_logged,
    day_completed |-> r.day_completed, streak_day |-> r.streak_day] : r \in t}

\* C1: whenever a step creates the row of (u, d), whichever handler takes it,
\* the new row's streak_day is (streak_day of the row of d - 1) + 1 if that
\* row exists with day_completed = true in the state the insert runs in, and
\* 1 otherwise.
C1_StreakOnCreate ==
  [][\A u \in Users, d \in Dates :
       ({r \in daily_quests : r.clerk_id = u /\ r.date = d} = {}
        /\ {r \in daily_quests' : r.clerk_id = u /\ r.date = d} # {})
       => \A n \in {r \in daily_quests' : r.clerk_id = u /\ r.date = d} :
            n.streak_day =
              IF \E b \in daily_quests :
                   b.clerk_id = u /\ b.date = d - 1 /\ b.day_completed
                THEN (CHOOSE b \in daily_quests :
                        b.clerk_id = u /\ b.date = d - 1 /\ b.day_completed).streak_day + 1
                ELSE 1]_vars

\* C2: a row that is day_completed on a (user, date) the PUT handler was
\* never called on has all three logging flags set.
C2_CompletedImpliesFlags ==
  \A r \in daily_quests :
    (r.day_completed /\ <<r.clerk_id, r.date>> \notin marked)
      => (r.weight_logged /\ r.meal_logged /\ r.exercise_logged)

C2_Witness ==
  \E r \in daily_quests :
    r.day_completed /\ <<r.clerk_id, r.date>> \notin marked

C4_LoserFallsBack ==
  response.insertRejected =>
    /\ response.status = HTTP_OK
    /\ response.op = "post" =>
         \E r \in StoredRows(response.clerk, response.date) : r[response.questType]

\* C5: there is at most one daily_quests row per (user, date).
C5_OneRowPerUserDate ==
  \A r1 \in daily_quests, r2 \in daily_quests :
    (r1.clerk_id = r2.clerk_id /\ r1.date = r2.date) => r1 = r2

C5_Witness ==
  /\ response.insertRejected
  /\ Cardinality(StoredRows(response.clerk, response.date)) = 1

\* C6: no step turns a logging flag or day_completed of a row from true to
\* false (and no step removes a row).
C6_FlagsMonotonic ==
  [][\A r \in daily_quests :
       \E n \in daily_quests' :
         /\ n.id = r.id /\ n.clerk_id = r.clerk_id /\ n.date = r.date
         /\ r.weight_logged => n.weight_logged
         /\ r.meal_logged => n.meal_logged
         /\ r.exercise_logged => n.exercise_logged
         /\ r.day_completed => n.day_completed]_vars

C6_Witness ==
  \E r \in daily_quests :
    /\ r.weight_logged /\ r.meal_logged
    /\ <<r.clerk_id, r.date>> \in marked

\* C7: from every reachable table, running the quest action twice in
\* sequence for the same (user, action, date) stores the same rows (flags,
\* day_completed, streak_day) as running it once.
C7_Idempotent ==
  \A u \in Users, q \in validQuestTypes, d \in Dates :
    Stored(RecordQuestAction(RecordQuestAction(daily_quests, u, q, d), u, q, d))
      = Stored(RecordQuestAction(daily_quests, u, q, d))

\* a quest action that ran alone has just finished: in this state a second
\* call with the same arguments is the repeated call of the claim
C7_Witness ==
  /\ NoneRunning
  /\ response.op = "post" /\ response.status = HTTP_OK
  /\ \E r \in StoredRows(response.clerk, response.date) : r[response.questType]
  /\ Stored(RecordQuestAction(daily_quests, response.clerk,
                              response.questType, response.date))
       = Stored(daily_quests)

\* C8: when a quest action finishes with no other request running, the row
\* in its response is the stored row of (user, date).
C8_ReturnsStoredRow ==
  (response.op = "post" /\ response.status = HTTP_OK /\ NoneRunning)
    => \A r \in StoredRows(response.clerk, response.date) : response.data = r

\* C9: when markDayComplete reports success, the row of (user, date) exists
\* and is day_completed.
C9_MarkedDayCompleted ==
  (response.op = "put" /\ response.status = HTTP_OK)
    => \E r \in StoredRows(response.clerk, response.date) : r.day_completed

\* C10: a weight or activity request whose quest bookkeeping failed is
\* answered with the success status and its primary row is in its table.
C10_QuestFailureSwallowed ==
  response.questError =>
    /\ response.status = HTTP_CREATED
    /\ \E row \in (IF response.op = "weight" THEN weights ELSE activities) :
         row.id = response.rowId /\ row.clerk_id = response.clerk

C10_Witness ==
  /\ response.questError
  /\ response.op \in {"weight", "activity"}
  /\ response.rowId > 0

\* ======================================================================
\* Part 2: workout programs, sessions, exercises and muscle balance
\* ======================================================================

\* user keys a workout request can carry: clerk 1 owns the rows of the
\* initial state of SpecSession, clerk 2 is another user
Clerks == {1, 2}
\* an id or a user key the request body does not carry (falsy in JavaScript)
NoId == 0

\* the six keys of MuscleVolume
MuscleGroups == {"chest", "back", "legs", "shoulders", "arms", "core"}

\* ------------------------------------------------------ rows of part 2
\* INSERT INTO workout_programs: the columns the model follows (status has
\* the column default 'active')
ProgramRow(id, clerkId, programName, startDate) ==
  [id |-> id, clerk_id |-> clerkId, program_name |-> programName,
   status |-> "active", start_date |-> startDate]

\* INSERT INTO workout_sessions of createWorkoutProgram
SessionRow(id, clerkId, programId, workoutDate, warmUpVideo) ==
  [id |-> id, clerk_id |-> clerkId, workout_type |-> "ai_generated",
   scheduled_date |-> workoutDate.date, program_id |-> programId,
   week_number |-> workoutDate.week, session_number |-> workoutDate.sessionNumber,
   warm_up_video_url |-> warmUpVideo, completion_status |-> "scheduled"]

\* INSERT INTO workout_exercises of createWorkoutProgram, for exercises[i]
\* (i counts from 0)
ExerciseRow_ZeroBased(id, sessionId, exerciseName, i, exerciseVideo) ==
  [id |-> id, workout_session_id |-> sessionId, exercise_name |-> exerciseName,
   order_index |-> i, video_url |-> exerciseVideo,
   exercise_completed |-> FALSE]
ExerciseRow(id, sessionId, exerciseName, i, exerciseVideo) ==
  [id |-> id, workout_session_id |-> sessionId, exercise_name |-> exerciseName,
   order_index |-> i + 1, video_url |-> exerciseVideo,
   exercise_completed |-> FALSE]

\* SERIAL ids of tables whose rows are never deleted
NextId(t) == Cardinality(t) + 1

\* ------------------------------------------- muscle-volume aggregator
ZeroVolume == [g \in MuscleGroups |-> 0]

\* exercise.muscle_groups?.forEach(group => { if (volume[group] !==
\* undefined) volume[group] += exerciseVolume })
RECURSIVE AddGroups(_, _, _)
AddGroups(volume, groups, exerciseVolume) ==
  IF groups = <<>> THEN volume
  ELSE LET group == Head(groups)
       IN AddGroups(IF group \in DOMAIN volume
                      THEN [volume EXCEPT ![group] = @ + exerciseVolume]
                      ELSE volume,
                    Tail(groups), exerciseVolume)

\* exercises.forEach(exercise => ...), from the running volume
RECURSIVE AddExercises(_, _)
AddExercises(volume, exercises) ==
  IF exercises = <<>> THEN volume
  ELSE LET exercise == Head(exercises)
           exerciseVolume == exercise.sets * exercise.reps
       IN AddExercises(AddGroups(volume, exercise.muscle_groups, exerciseVolume),
                       Tail(exercises))

calculateMuscleVolume(exercises) == AddExercises(ZeroVolume, exercises)

\* Object.values(volume).reduce((a, b) => a + b, 0)
TotalVolume(volume) ==
  volume["chest"] + volume["back"] + volume["legs"]
    + volume["shoulders"] + volume["arms"] + volume["core"]

BalanceRow(id, clerkId, programId, sessionId, volume, totalVolume, workoutDate) ==
  [id |-> id, clerk_id |-> clerkId, program_id |-> programId,
   session_id |-> sessionId,
   chest_volume |-> volume["chest"], back_volume |-> volume["back"],
   legs_volume |-> volume["legs"], shoulders_volume |-> volume["shoulders"],
   arms_volume |-> volume["arms"], core_volume |-> volume["core"],
   total_volume |-> totalVolume, workout_date |-> workoutDate]

\* INSERT INTO muscle_balance_history ... ON CONFLICT (clerk_id, session_id)
\* DO UPDATE SET the six volumes and total_volume
UpsertBalance_Add(t, row) ==
  IF \E r \in t : r.clerk_id = row.clerk_id /\ r.session_id = row.session_id
    THEN {IF r.clerk_id = row.clerk_id /\ r.session_id = row.session_id
            THEN [r EXCEPT !.chest_volume = @ + row.chest_volume,
                           !.back_volume = @ + row.back_volume,
                           !.legs_volume = @ + row.legs_volume,
                           !.shoulders_volume = @ + row.shoulders_volume,
                           !.arms_volume = @ + row.arms_volume,
                           !.core_volume = @ + row.core_volume,
                           !.total_volume = @ + row.total_volume]
            ELSE r : r \in t}
    ELSE t \cup {row}
UpsertBalance(t, row) ==
  IF \E r \in t : r.clerk_id = row.clerk_id /\ r.session_id = row.session_id
    THEN {IF r.clerk_id = row.clerk_id /\ r.session_id = row.session_id
            THEN [r EXCEPT !.chest_volume = row.chest_volume,
                           !.back_volume = row.back_volume,
                           !.legs_volume = row.legs_volume,
                           !.shoulders_volume = row.shoulders_volume,
                           !.arms_volume = row.arms_volume,
                           !.core_volume = row.core_volume,
                           !.total_volume = row.total_volume]
            ELSE r : r \in t}
    ELSE t \cup {row}

\* recordMuscleBalance: the table after the call
recordMuscleBalance(t, clerkId, programId, sessionId, exercises, workoutDate) ==
  LET volume == calculateMuscleVolume(exercises)
      totalVolume == TotalVolume(volume)
  IN UpsertBalance(t, BalanceRow(NextId(t), clerkId, programId, sessionId,
                                 volume, totalVolume, workoutDate))

\* ------------------------------------------------- workout requests
WorkoutRunning(r) == r.pc # "idle"

\* slot p goes on with local state r / ends with response resp
WorkoutContinue(p, r) ==
  wreq' = [wreq EXCEPT ![p] = r] /\ wresponse' = NoWorkoutResponse
WorkoutFinish(p, resp) ==
  wreq' = [wreq EXCEPT ![p] = WorkoutIdle] /\ wresponse' = resp

\* A new request takes the first free slot (the slots are interchangeable).
WorkoutCanStart(p) ==
  /\ ~WorkoutRunning(wreq[p])
  /\ \A o \in Procs : o < p => WorkoutRunning(wreq[o])
  /\ started < MaxRequests

\* NextResponse.json(...) of a session-tracker request r; markedIn is the
\* session in which the request marked an exercise complete while that
\* session was still scheduled (NoId if it did not)
SessionRespond(r, status) ==
  [op |-> r.op, status |-> status, clerk |-> r.clerk, session |-> r.session,
   markedIn |-> r.markedIn, programId |-> NoId, details |-> "none",
   writes |-> 0]

\* ------------------------------- session / exercise completion tracker
\* the bodies of completeSession requests: exercises with their completion
\* flag and the sets, reps and muscle groups the aggregator reads
ExerciseLists ==
  {<<[id |-> 1, completed |-> TRUE, sets |-> 3, reps |-> 10,
      muscle_groups |-> <<"chest", "arms">>],
     [id |-> 2, completed |-> FALSE, sets |-> 2, reps |-> 5,
      muscle_groups |-> <<"legs">>]>>,
   <<[id |-> 2, completed |-> TRUE, sets |-> 4, reps |-> 5,
      muscle_groups |-> <<"chest", "triceps">>]>>}

\* the bodies of batch saves: completionStates
CompletionStateLists ==
  {<<TRUE>>, <<FALSE, TRUE>>}

\* UPDATE workout_sessions SET completion_status = 'completed'
\* WHERE id = sessionId AND clerk_id = clerkId
SetCompleted(t, sessionId, clerkId) ==
  {IF r.id = sessionId /\ r.clerk_id = clerkId
     THEN [r EXCEPT !.completion_status = "completed"] ELSE r : r \in t}

\* UPDATE workout_sessions SET completion_status = 'in_progress'
\* WHERE id = sessionId AND clerk_id = clerkId
SetInProgress_Completed(t, sessionId, clerkId) ==
  {IF r.id = sessionId /\ r.clerk_id = clerkId
     THEN [r EXCEPT !.completion_status = "completed"] ELSE r : r \in t}
SetInProgress(t, sessionId, clerkId) ==
  {IF r.id = sessionId /\ r.clerk_id = clerkId
     THEN [r EXCEPT !.completion_status = "in_progress"] ELSE r : r \in t}

\* UPDATE workout_exercises SET exercise_completed = completed WHERE id =
\* exerciseId (PUT)
SetExerciseById(t, exerciseId, completed) ==
  {IF r.id = exerciseId THEN [r EXCEPT !.exercise_completed = completed]
                        ELSE r : r \in t}

\* ... WHERE id = exercise.id AND workout_session_id = sessionId (POST)
SetExerciseInSession(t, exerciseId, sessionId, completed) ==
  {IF r.id = exerciseId /\ r.workout_session_id = sessionId
     THEN [r EXCEPT !.exercise_completed = completed] ELSE r : r \in t}

\* ... WHERE workout_session_id = sessionId AND order_index = i + 1 (PATCH)
SetExerciseByIndex(t, sessionId, i, completed) ==
  {IF r.workout_session_id = sessionId /\ r.order_index = i + 1
     THEN [r EXCEPT !.exercise_completed = completed] ELSE r : r \in t}

\* Observation for the response: the scheduled session owning an exercise
\* row in hit, if the statement set exercise_completed = true on it.
MarkedIn(before, hit, completed) ==
  IF before # NoId THEN before
  ELSE IF completed
          /\ \E e \in hit : \E ws \in workout_sessions :
               ws.id = e.workout_session_id /\ ws.completion_status = "scheduled"
    THEN (CHOOSE e \in hit : \E ws \in workout_sessions :
            ws.id = e.workout_session_id
            /\ ws.completion_status = "scheduled").workout_session_id
    ELSE NoId

\* what a session-tracker step leaves alone besides the named tables
sessionFrame ==
  <<questVars, analysisVars, workout_programs, ai_workout_decisions, exercise_video_cache,
    today, call, result>>

\* ---------------------------- POST /api/workout-session (completeSession)
\* validation, then UPDATE workout_sessions SET completion_status = 'completed'
Complete_UpdateSession(p, sessionId, clerkId, exercises, difficultyRating) ==
  /\ WorkoutCanStart(p)
  /\ started' = started + 1
  /\ workout_sessions' = SetCompleted(workout_sessions, sessionId, clerkId)
  /\ WorkoutContinue(p,
       [op |-> "completeSession",
        pc |-> IF exercises = <<>> THEN "select" ELSE "exercises",
        clerk |-> clerkId, session |-> sessionId, exercises |-> exercises,
        i |-> 1, rating |-> difficultyRating, program_id |-> NoId,
        scheduled_date |-> 0, markedIn |-> NoId])
  /\ UNCHANGED <<workout_exercises, muscle_balance_history, workout_feedback>>
  /\ UNCHANGED sessionFrame

\* for (const exercise of exercises) UPDATE workout_exercises ...
Complete_UpdateExercise(p) ==
  /\ wreq[p].op = "completeSession" /\ wreq[p].pc = "exercises"
  /\ LET r == wreq[p]
         exercise == r.exercises[r.i]
     IN /\ workout_exercises' =
             SetExerciseInSession(workout_exercises, exercise.id, r.session,
                                  exercise.completed)
        /\ WorkoutContinue(p,
             [r EXCEPT !.i = @ + 1,
                       !.pc = IF r.i = Len(r.exercises) THEN "select"
                                                        ELSE "exercises"])
  /\ UNCHANGED <<workout_sessions, muscle_balance_history, workout_feedback,
                 started>>
  /\ UNCHANGED sessionFrame

\* SELECT program_id, scheduled_date FROM workout_sessions WHERE id = sessionId
Complete_SelectSession(p) ==
  /\ wreq[p].op = "completeSession" /\ wreq[p].pc = "select"
  /\ LET r == wreq[p]
         found == {ws \in workout_sessions : ws.id = r.session}
     IN IF found # {}
          THEN LET session == CHOOSE ws \in found : TRUE
               IN WorkoutContinue(p,
                    [r EXCEPT !.pc = "record",
                              !.program_id = session.program_id,
                              !.scheduled_date = session.scheduled_date])
          ELSE IF r.rating
                 THEN WorkoutContinue(p, [r EXCEPT !.pc = "feedback"])
                 ELSE WorkoutFinish(p, SessionRespond(r, HTTP_OK))
  /\ UNCHANGED <<workout_sessions, workout_exercises, muscle_balance_history,
                 workout_feedback, started>>
  /\ UNCHANGED sessionFrame

\* if (session) await recordMuscleBalance(clerkId, session.program_id,
\* sessionId, exercises, session.scheduled_date)
Complete_RecordMuscleBalance(p) ==
  /\ wreq[p].op = "completeSession" /\ wreq[p].pc = "record"
  /\ LET r == wreq[p]
     IN /\ muscle_balance_history' =
             recordMuscleBalance(muscle_balance_history, r.clerk, r.program_id,
                                 r.session, r.exercises, r.scheduled_date)
        /\ IF r.rating
             THEN WorkoutContinue(p, [r EXCEPT !.pc = "feedback"])
             ELSE WorkoutFinish(p, SessionRespond(r, HTTP_OK))
  /\ UNCHANGED <<workout_sessions, workout_exercises, workout_feedback, started>>
  /\ UNCHANGED sessionFrame

\* if (difficultyRating) INSERT INTO workout_feedback ...
Complete_InsertFeedback(p) ==
  /\ wreq[p].op = "completeSession" /\ wreq[p].pc = "feedback"
  /\ LET r == wreq[p]
     IN /\ workout_feedback' = workout_feedback \cup
             {[id |-> NextId(workout_feedback), clerk_id |-> r.clerk,
               session_id |-> r.session]}
        /\ WorkoutFinish(p, SessionRespond(r, HTTP_OK))
  /\ UNCHANGED <<workout_sessions, workout_exercises, muscle_balance_history,
                 started>>
  /\ UNCHANGED sessionFrame

\* ----------------------- PUT /api/workout-session (setExerciseCompletion)
\* validation, then UPDATE workout_exercises ... WHERE id = exerciseId
Exercise_Update(p, exerciseId, completed, sessionId, clerkId) ==
  /\ WorkoutCanStart(p)
  /\ started' = started + 1
  /\ workout_exercises' = SetExerciseById(workout_exercises, exerciseId, completed)
  /\ LET hit == {e \in workout_exercises : e.id = exerciseId}
         r == [op |-> "setExerciseCompletion", pc |-> "select",
               clerk |-> clerkId, session |-> sessionId,
               markedIn |-> MarkedIn(NoId, hit, completed)]
     IN IF sessionId # NoId /\ clerkId # NoId /\ completed
          THEN WorkoutContinue(p, r)
          ELSE WorkoutFinish(p, SessionRespond(r, HTTP_OK))
  /\ UNCHANGED <<workout_sessions, muscle_balance_history, workout_feedback>>
  /\ UNCHANGED sessionFrame

\* SELECT completion_status FROM workout_sessions WHERE id = sessionId AND
\* clerk_id = clerkId
Exercise_SelectSession(p) ==
  /\ wreq[p].op = "setExerciseCompletion" /\ wreq[p].pc = "select"
  /\ LET r == wreq[p]
         found == {ws \in workout_sessions :
                     ws.id = r.session /\ ws.clerk_id = r.clerk}
     IN IF found # {} /\ (CHOOSE ws \in found : TRUE).completion_status = "scheduled"
          THEN WorkoutContinue(p, [r EXCEPT !.pc = "update"])
          ELSE WorkoutFinish(p, SessionRespond(r, HTTP_OK))
  /\ UNCHANGED <<workout_sessions, workout_exercises, muscle_balance_history,
                 workout_feedback, started>>
  /\ UNCHANGED sessionFrame

\* UPDATE workout_sessions SET completion_status = 'in_progress' ...
Exercise_UpdateSession(p) ==
  /\ wreq[p].op = "setExerciseCompletion" /\ wreq[p].pc = "update"
  /\ LET r == wreq[p]
     IN /\ workout_sessions' = SetInProgress(workout_sessions, r.session, r.clerk)
        /\ WorkoutFinish(p, SessionRespond(r, HTTP_OK))
  /\ UNCHANGED <<workout_exercises, muscle_balance_history, workout_feedback,
                 started>>
  /\ UNCHANGED sessionFrame

\* ------------------------- PATCH /api/workout-session (batch save)
\* validation, then the UPDATE of completionStates[0]
Batch_Update(p, sessionId, clerkId, completionStates) ==
  /\ WorkoutCanStart(p)
  /\ started' = started + 1
  /\ workout_exercises' =
       SetExerciseByIndex(workout_exercises, sessionId, 0, completionStates[1])
  /\ LET hit == {e \in workout_exercises :
                   e.workout_session_id = sessionId /\ e.order_index = 1}
         r == [op |-> "saveCompletionStates", pc |-> "next",
               clerk |-> clerkId, session |-> sessionId,
               completionStates |-> completionStates, i |-> 1,
               markedIn |-> MarkedIn(NoId, hit, completionStates[1])]
     IN IF Len(completionStates) > 1
          THEN WorkoutContinue(p, r)
          ELSE WorkoutFinish(p, SessionRespond(r, HTTP_OK))
  /\ UNCHANGED <<workout_sessions, muscle_balance_history, workout_feedback>>
  /\ UNCHANGED sessionFrame

\* the UPDATE of completionStates[i], i >= 1
Batch_UpdateNext(p) ==
  /\ wreq[p].op = "saveCompletionStates" /\ wreq[p].pc = "next"
  /\ LET r == wreq[p]
         isCompleted == r.completionStates[r.i + 1]
         hit == {e \in workout_exercises :
                   e.workout_session_id = r.session /\ e.order_index = r.i + 1}
         n == [r EXCEPT !.i = @ + 1,
                        !.markedIn = MarkedIn(r.markedIn, hit, isCompleted)]
     IN /\ workout_exercises' =
             SetExerciseByIndex(workout_exercises, r.session, r.i, isCompleted)
        /\ IF r.i + 1 < Len(r.completionStates)
             THEN WorkoutContinue(p, n)
             ELSE WorkoutFinish(p, SessionRespond(n, HTTP_OK))
  /\ UNCHANGED <<workout_sessions, muscle_balance_history, workout_feedback,
                 started>>
  /\ UNCHANGED sessionFrame

\* a required field is missing: 400 before any statement
SessionOps == {"completeSession", "setExerciseCompletion", "saveCompletionStates"}
Session_BadRequest(p, op) ==
  /\ WorkoutCanStart(p)
  /\ started' = started + 1
  /\ WorkoutFinish(p,
       SessionRespond([op |-> op, clerk |-> NoId, session |-> NoId,
                       markedIn |-> NoId], HTTP_BAD_REQUEST))
  /\ UNCHANGED <<workout_sessions, workout_exercises, muscle_balance_history,
                 workout_feedback>>
  /\ UNCHANGED sessionFrame

\* the next statement of a tracker request throws: catch (error) -> 500
Session_DbError(p) ==
  /\ wreq[p].op \in SessionOps
  /\ WorkoutFinish(p, SessionRespond(wreq[p], HTTP_INTERNAL))
  /\ UNCHANGED <<workout_sessions, workout_exercises, muscle_balance_history,
                 workout_feedback, started>>
  /\ UNCHANGED sessionFrame

\* The tracker starts from one generated program of clerk 1: session 1,
\* scheduled, with the two exercises 1 and 2 (order_index 1 and 2).
ExerciseIds == {1, 2}
InitSession ==
  /\ NoQuests /\ NoAnalysis
  /\ started = 0
  /\ workout_programs = {ProgramRow(1, 1, "Strength", 1)}
  /\ workout_sessions =
       {SessionRow(1, 1, 1, [week |-> 1, dayOfWeek |-> "Monday", date |-> 1,
                             sessionNumber |-> 1], "null")}
  /\ workout_exercises =
       {ExerciseRow(1, 1, "Squat", 0, "null"), ExerciseRow(2, 1, "Row", 1, "null")}
  /\ muscle_balance_history = {}
  /\ workout_feedback = {}
  /\ ai_workout_decisions = {}
  /\ exercise_video_cache = {}
  /\ wreq = [p \in Procs |-> WorkoutIdle]
  /\ wresponse = NoWorkoutResponse
  /\ today = 1
  /\ call = NotCalled
  /\ result = NotCalled

NextSession ==
  \/ \E p \in Procs, u \in Clerks, l \in ExerciseLists, rating \in BOOLEAN :
       Complete_UpdateSession(p, 1, u, l, rating)
  \/ \E p \in Procs : Complete_UpdateExercise(p)
  \/ \E p \in Procs : Complete_SelectSession(p)
  \/ \E p \in Procs : Complete_RecordMuscleBalance(p)
  \/ \E p \in Procs : Complete_InsertFeedback(p)
  \/ \E p \in Procs, e \in ExerciseIds, completed \in BOOLEAN,
        s \in {NoId, 1}, u \in {NoId, 1} :
       Exercise_Update(p, e, completed, s, u)
  \/ \E p \in Procs : Exercise_SelectSession(p)
  \/ \E p \in Procs : Exercise_UpdateSession(p)
  \/ \E p \in Procs, states \in CompletionStateLists :
       Batch_Update(p, 1, 1, states)
  \/ \E p \in Procs : Batch_UpdateNext(p)
  \/ \E p \in Procs, op \in SessionOps : Session_BadRequest(p, op)
  \/ \E p \in Procs : Session_DbError(p)

\* The tracker's requests in any interleaving; any statement may fail.
SpecSession == InitSession /\ [][NextSession]_vars

\* -------------------------------------------- properties of the tracker
\* C11: in every step, whichever requests interleave, no session's
\* completion_status moves backwards: a completed session stays completed
\* and an in_progress session does not return to scheduled.
C11_StatusMovesForward ==
  [][\A ws \in workout_sessions : \A n \in workout_sessions' :
       n.id = ws.id =>
         /\ ws.completion_status = "completed"
              => n.completion_status = "completed"
         /\ ws.completion_status = "in_progress"
              => n.completion_status \in {"in_progress", "completed"}]_vars

\* C12: every row of muscle_balance_history belongs to a session whose
\* completion_status is completed.
C12_RecordOnlyIfCompleted ==
  \A rec \in muscle_balance_history : \A ws \in workout_sessions :
    ws.id = rec.session_id => ws.completion_status = "completed"

\* C13: a step that brings a session to completed is the first statement of
\* a completeSession request; no step of setExerciseCompletion or of a
\* batch save does it.
C13_OnlyCompleteSessionCompletes ==
  [][\A ws \in workout_sessions : \A n \in workout_sessions' :
       (n.id = ws.id /\ ws.completion_status # "completed"
          /\ n.completion_status = "completed")
       => \E p \in Procs :
            wreq[p].pc = "idle" /\ wreq'[p].op = "completeSession"]_vars

\* a setExerciseCompletion request has just ended with every exercise of
\* session 1 complete, and the session is in_progress
C13_Witness ==
  /\ wresponse.op = "setExerciseCompletion" /\ wresponse.status = 200
  /\ \A e \in workout_exercises : e.exercise_completed
  /\ \A ws \in workout_sessions : ws.completion_status = "in_progress"

\* C14: when a setExerciseCompletion or batch-save request that marked an
\* exercise complete while its session was scheduled ends successfully, that
\* session is no longer scheduled: it is in_progress (or completed, if a
\* completeSession request got in between).
C14_MarkedSessionInProgress ==
  (wresponse.op \in {"setExerciseCompletion", "saveCompletionStates"}
     /\ wresponse.status = 200 /\ wresponse.markedIn # 0)
  => \A ws \in workout_sessions :
       ws.id = wresponse.markedIn
         => ws.completion_status \in {"in_progress", "completed"}

\* C15: the statement of recordMuscleBalance leaves exactly one row for the
\* (clerk, session) of the call, holding the six volumes and the total of
\* that call's exercise list, whatever the table held before.
C15_ReplaceNotAdd ==
  [][\A p \in Procs :
       (wreq[p].op = "completeSession" /\ wreq[p].pc = "record"
          /\ wreq'[p] # wreq[p] /\ wresponse'.status # 500)
       => LET rows == {r \in muscle_balance_history' :
                         r.clerk_id = wreq[p].clerk
                         /\ r.session_id = wreq[p].session}
              v == calculateMuscleVolume(wreq[p].exercises)
          IN /\ Cardinality(rows) = 1
             /\ \A r \in rows :
                  /\ r.chest_volume = v["chest"] /\ r.back_volume = v["back"]
                  /\ r.legs_volume = v["legs"]
                  /\ r.shoulders_volume = v["shoulders"]
                  /\ r.arms_volume = v["arms"] /\ r.core_volume = v["core"]
                  /\ r.total_volume = v["chest"] + v["back"] + v["legs"]
                       + v["shoulders"] + v["arms"] + v["core"]]_vars

\* a call has recorded its list and waits to insert its feedback, and the
\* row of its key now holds another total: a later call for the same key
\* replaced the values
C15_Witness ==
  \E p \in Procs :
    /\ wreq[p].op = "completeSession" /\ wreq[p].pc = "feedback"
    /\ \E rec \in muscle_balance_history :
         /\ rec.clerk_id = wreq[p].clerk /\ rec.session_id = wreq[p].session
         /\ rec.total_volume # TotalVolume(calculateMuscleVolume(wreq[p].exercises))

\* ------------------------------------- calculateMuscleVolume as called
\* longest exercise list of a call
MaxExercises == 2

\* the muscle_groups arrays of the exercises: tracked groups, a tag outside
\* the six ("triceps"), several tags, a repeated tag, no tag
TagLists ==
  {<<>>, <<"chest">>, <<"legs">>, <<"triceps">>, <<"chest", "arms">>,
   <<"chest", "triceps">>, <<"chest", "chest">>,
   <<"back", "core", "shoulders">>}

ExerciseInputs ==
  [sets : {1, 3}, reps : {2, 10}, muscle_groups : TagLists]

ExerciseListInputs ==
  UNION {[1..n -> ExerciseInputs] : n \in 0..MaxExercises}

InitVolume ==
  /\ NoQuests /\ NoAnalysis
  /\ started = 0
  /\ NoWorkoutRequests
  /\ call \in [fn : {"calculateMuscleVolume"}, exercises : ExerciseListInputs]
  /\ result = NotCalled

\* const volume = calculateMuscleVolume(exercises); const totalVolume = ...
Volume_Call ==
  /\ call.fn = "calculateMuscleVolume" /\ result = NotCalled
  /\ LET volume == calculateMuscleVolume(call.exercises)
     IN result' = [fn |-> "calculateMuscleVolume", volume |-> volume,
                   totalVolume |-> TotalVolume(volume)]
  /\ UNCHANGED <<questVars, analysisVars, started, workoutTables, wreq, wresponse,
                 today, call>>

NextVolume == Volume_Call

SpecVolume == InitVolume /\ [][NextVolume]_vars

\* the sum of f over the finite set S of indices
RECURSIVE SumOver(_, _)
SumOver(S, f) ==
  IF S = {} THEN 0
  ELSE LET i == CHOOSE j \in S : TRUE IN f[i] + SumOver(S \ {i}, f)

\* C16: for every exercise list, each of the six groups gets the sum of
\* sets * reps over the exercises whose muscle_groups contain the group, and
\* totalVolume is the sum of the six group volumes.
C16_VolumePerGroup ==
  result.fn = "calculateMuscleVolume" =>
    LET exercises == call.exercises
        product == [i \in DOMAIN exercises |-> exercises[i].sets * exercises[i].reps]
        tagged(g) == {i \in DOMAIN exercises :
                        \E k \in DOMAIN exercises[i].muscle_groups :
                          exercises[i].muscle_groups[k] = g}
    IN /\ \A g \in {"chest", "back", "legs", "shoulders", "arms", "core"} :
            result.volume[g] = SumOver(tagged(g), product)
       /\ result.totalVolume =
            result.volume["chest"] + result.volume["back"] + result.volume["legs"]
              + result.volume["shoulders"] + result.volume["arms"]
              + result.volume["core"]

\* ------------------------------------------------ calculateWorkoutDates
\* A calendar date (the text YYYY-MM-DD) is a day number, day 0 being a
\* Sunday; a Date object is a number of hours since 00:00 UTC of day 0.  The
\* local fields of a Date are those of the process's time zone, offset
\* hours ahead of UTC (negative: behind); daylight saving is not modelled.
dayMap ==
  [Sunday |-> 0, Monday |-> 1, Tuesday |-> 2, Wednesday |-> 3,
   Thursday |-> 4, Friday |-> 5, Saturday |-> 6]

\* new Date('YYYY-MM-DD'): midnight UTC of that day
ParseDate(dateString) == dateString * 24
\* date.getDate(), as a day number: the local calendar day
GetDate(date, offset) == (date + offset) \div 24
\* date.getDay(): the local day of the week
GetDay(date, offset) == GetDate(date, offset) % 7
\* date.setDate(day): the same local time on local calendar day `day`
SetDate(date, offset, day) == date + 24 * (day - GetDate(date, offset))
\* date.toISOString().split('T')[0]: the UTC calendar day
ToISODate(date) == date \div 24

\* the body of the inner loop for week `week` and workoutDays[j]
WorkoutDate(start, workoutDays, week, j, offset) ==
  LET dayName == workoutDays[j]
      dayNumber == dayMap[dayName]
      weekStart == SetDate(start, offset, GetDate(start, offset) + (week - 1) * 7)
      daysUntilTarget == (dayNumber - GetDay(weekStart, offset) + 7) % 7
      workoutDate ==
        SetDate(weekStart, offset, GetDate(weekStart, offset) + daysUntilTarget)
  IN [week |-> week, dayOfWeek |-> dayName,
      date |-> ToISODate(workoutDate), sessionNumber |-> j]

\* for (let week = ...; week <= totalWeeks; week++): the entries pushed
\* from week `week` on
RECURSIVE WeeksFrom(_, _, _, _, _)
WeeksFrom(start, workoutDays, totalWeeks, week, offset) ==
  IF week > totalWeeks THEN <<>>
  ELSE [j \in 1..Len(workoutDays) |->
          WorkoutDate(start, workoutDays, week, j, offset)]
       \o WeeksFrom(start, workoutDays, totalWeeks, week + 1, offset)

calculateWorkoutDates(startDate, workoutDays, totalWeeks, offset) ==
  WeeksFrom(ParseDate(startDate), workoutDays, totalWeeks, 1, offset)

\* longest weekday list and largest number of weeks of a call
MaxDays == 2
MaxWeeks == 2
\* start dates: one for each day of the week
StartDates == 1..7
\* time zones of the server process: behind UTC, UTC, ahead of UTC
TimeZones == {-5, 0, 9}

\* lists of distinct weekday names
WorkoutDayLists ==
  {l \in UNION {[1..n -> DOMAIN dayMap] : n \in 1..MaxDays} :
     \A a, b \in DOMAIN l : a # b => l[a] # l[b]}

InitDates ==
  /\ NoQuests /\ NoAnalysis
  /\ started = 0
  /\ NoWorkoutRequests
  /\ call \in [fn : {"calculateWorkoutDates"}, startDate : StartDates,
               workoutDays : WorkoutDayLists, totalWeeks : 1..MaxWeeks,
               offset : TimeZones]
  /\ result = NotCalled

\* const workoutDates = calculateWorkoutDates(startDate, workoutDays, totalWeeks)
Dates_Call ==
  /\ call.fn = "calculateWorkoutDates" /\ result = NotCalled
  /\ result' = [fn |-> "calculateWorkoutDates",
                dates |-> calculateWorkoutDates(call.startDate, call.workoutDays,
                                                call.totalWeeks, call.offset)]
  /\ UNCHANGED <<questVars, analysisVars, started, workoutTables, wreq, wresponse,
                 today, call>>

NextDates == Dates_Call

SpecDates == InitDates /\ [][NextDates]_vars

\* C17: the call returns k * W entries; the entry of week w and of the j-th
\* weekday name d carries week w, name d and session number j, and its date
\* lies in [S + 7(w - 1), S + 7w) and falls on d.
C17_WorkoutDates ==
  result.fn = "calculateWorkoutDates" =>
    LET S == call.startDate
        days == call.workoutDays
        k == Len(days)
        W == call.totalWeeks
        names == <<"Sunday", "Monday", "Tuesday", "Wednesday", "Thursday",
                   "Friday", "Saturday">>
    IN /\ Len(result.dates) = k * W
       /\ \A w \in 1..W : \A j \in 1..k :
            LET e == result.dates[(w - 1) * k + j]
            IN /\ e.week = w /\ e.dayOfWeek = days[j] /\ e.sessionNumber = j
               /\ e.date >= S + 7 * (w - 1) /\ e.date < S + 7 * w
               /\ names[(e.date % 7) + 1] = days[j]

\* ----------------------------------------------------- program generator
\* users that have a row in users (fetchUserProfile finds a profile)
Profiles == {1}

\* the server process of the generator runs in UTC
ServerTimeZone == 0

\* bodies of generateProgram requests: workoutDays and programWeeks
GenerateParams ==
  {[workoutDays |-> <<"Monday", "Wednesday">>, programWeeks |-> 1]}

\* Structures the text-generation service returns (the fields the generator
\* reads).  The first has a session for both slots of week 1; the second
\* has none for Monday of week 1 and has sessions that match no slot
\* (Friday of week 1, Monday of week 2).  warmUpVideoQuery "" stands for an
\* absent query.
GeneratedPrograms ==
  {[programName |-> "Strength",
    weeks |-> <<[weekNumber |-> 1, phase |-> "Foundation",
                 sessions |->
                   <<[dayOfWeek |-> "Monday", warmUpVideoQuery |-> "",
                      exercises |-> <<[name |-> "Squat"], [name |-> "Row"]>>],
                     [dayOfWeek |-> "Wednesday", warmUpVideoQuery |-> "",
                      exercises |-> <<[name |-> "squat"]>>]>>]>>],
   [programName |-> "Mobility",
    weeks |-> <<[weekNumber |-> 1, phase |-> "Base",
                 sessions |->
                   <<[dayOfWeek |-> "Wednesday",
                      warmUpVideoQuery |-> "Hip Opener",
                      exercises |-> <<[name |-> "Row"]>>],
                     [dayOfWeek |-> "Friday", warmUpVideoQuery |-> "",
                      exercises |-> <<[name |-> "Squat"]>>]>>],
                [weekNumber |-> 2, phase |-> "Build",
                 sessions |->
                   <<[dayOfWeek |-> "Monday", warmUpVideoQuery |-> "",
                      exercises |-> <<[name |-> "Row"]>>]>>]>>]}

\* the ways callGeminiAPI throws, by the message of the Error
GeminiErrors ==
  {"Gemini API key not configured", "Gemini API error",
   "Invalid response structure from Gemini API", "No JSON found in response",
   "Failed to parse JSON"}

\* callGeminiAPI: throws with message outcome, or returns the parsed object
callGeminiAPI(failure, data) ==
  IF failure \in GeminiErrors
    THEN [threw |-> TRUE, message |-> failure]
    ELSE [threw |-> FALSE, data |-> data]

\* exerciseName.toLowerCase()
LowerCase(name) ==
  CASE name = "Squat" -> "squat"
    [] name = "Row" -> "row"
    [] name = "Hip Opener" -> "hip opener"
    [] name = "ROW" -> "row"
    [] OTHER -> name

\* video ids the video-search service can return
VideoIds == {"v1", "v2"}

\* what a search request can come to: no API key configured, a non-2xx
\* reply, a reply without items, an exception of fetch, or a video
SearchOutcomes == {"no_key", "not_ok", "empty", "exception"} \cup VideoIds

\* a new row of exercise_video_cache (use_count DEFAULT 1; the url columns
\* are functions of video_id)
CacheRow(name, videoId) ==
  [exercise_name |-> name, video_id |-> videoId, use_count |-> 1]

\* INSERT INTO exercise_video_cache ... ON CONFLICT (exercise_name) DO NOTHING
CacheInsert_Overwrite(t, name, videoId) ==
  {c \in t : c.exercise_name # name} \cup {CacheRow(name, videoId)}
CacheInsert(t, name, videoId) ==
  IF \E c \in t : c.exercise_name = name
    THEN t
    ELSE t \cup {CacheRow(name, videoId)}

\* UPDATE exercise_video_cache SET last_used_at = NOW(), use_count =
\* use_count + 1 WHERE exercise_name = name
CacheTouch(t, name) ==
  {IF c.exercise_name = name THEN [c EXCEPT !.use_count = @ + 1] ELSE c :
   c \in t}

\* sessionMap.get(`${week}-${dayOfWeek}`): the last session of the generated
\* weeks with that week number and weekday, NoSession if there is none
NoSession == [dayOfWeek |-> "none"]
SessionFor_AnyWeek(weeks, week, dayOfWeek) ==
  LET matches == {m \in UNION {{<<a, b>> : b \in DOMAIN weeks[a].sessions} :
                                   a \in DOMAIN weeks} :
                    weeks[m[1]].sessions[m[2]].dayOfWeek = dayOfWeek}
  IN IF matches = {} THEN NoSession
     ELSE LET last == CHOOSE m \in matches :
                        \A o \in matches :
                          o[1] < m[1] \/ (o[1] = m[1] /\ o[2] <= m[2])
          IN weeks[last[1]].sessions[last[2]]
SessionFor(weeks, week, dayOfWeek) ==
  LET matches == {m \in UNION {{<<a, b>> : b \in DOMAIN weeks[a].sessions} :
                                   a \in DOMAIN weeks} :
                    /\ weeks[m[1]].weekNumber = week
                    /\ weeks[m[1]].sessions[m[2]].dayOfWeek = dayOfWeek}
  IN IF matches = {} THEN NoSession
     ELSE LET last == CHOOSE m \in matches :
                        \A o \in matches :
                          o[1] < m[1] \/ (o[1] = m[1] /\ o[2] <= m[2])
          IN weeks[last[1]].sessions[last[2]]

\* for (const workoutDate of workoutDates): the first index from `from` on
\* whose slot has a generated session, 0 when the loop is over
NextSlot(weeks, workoutDates, from) ==
  LET slots == {d \in from..Len(workoutDates) :
                  SessionFor(weeks, workoutDates[d].week,
                             workoutDates[d].dayOfWeek) # NoSession}
  IN IF slots = {} THEN 0 ELSE CHOOSE d \in slots : \A o \in slots : d <= o

\* INSERT INTO ai_workout_decisions
DecisionRow(id, clerkId, programId) ==
  [id |-> id, clerk_id |-> clerkId, program_id |-> programId,
   decision_type |-> "program_generation"]

\* NextResponse.json(...) of a generateProgram request r; writes is the
\* number of rows the request inserted into the program, session, exercise
\* and audit tables
GenerateRespond(r, status, details) ==
  [op |-> "generateProgram", status |-> status, clerk |-> r.clerk,
   session |-> NoId, markedIn |-> NoId, programId |-> r.programId,
   details |-> details, writes |-> r.writes]

\* catch (error) { return 500 { error, details: error.message } }
GenerateCatch_Audit(p, r, message) ==
  /\ WorkoutFinish(p, GenerateRespond(r, HTTP_INTERNAL, message))
  /\ ai_workout_decisions' = ai_workout_decisions \cup
       {DecisionRow(NextId(ai_workout_decisions), r.clerk, r.programId)}
GenerateCatch(p, r, message) ==
  /\ WorkoutFinish(p, GenerateRespond(r, HTTP_INTERNAL, message))
  /\ UNCHANGED ai_workout_decisions

\* what a generator step leaves alone besides the named tables
generateFrame ==
  <<questVars, analysisVars, muscle_balance_history, workout_feedback, today, call, result>>

\* the text the current video lookup of request r searches for
LookupName(r) ==
  IF r.lookup = "warmup"
    THEN IF r.sessionData.warmUpVideoQuery = ""
           THEN "dynamic stretching warm up"
           ELSE r.sessionData.warmUpVideoQuery
    ELSE r.sessionData.exercises[r.i + 1].name

\* the loop over workoutDates reaches index d (0: the loop is over and
\* createWorkoutProgram returns)
EnterSlot(r, d) ==
  IF d = 0
    THEN [r EXCEPT !.pc = "audit", !.d = 0, !.sessionData = NoSession]
    ELSE [r EXCEPT !.pc = "video", !.lookup = "warmup", !.d = d, !.i = 0,
                   !.sessionData =
                     SessionFor(r.programData.weeks, r.workoutDates[d].week,
                                r.workoutDates[d].dayOfWeek)]

\* getYouTubeVideo returned video: on to the INSERT the lookup was for
AfterLookup_SkipRow(r, video) ==
  [r EXCEPT !.video = video,
            !.pc = IF video = "null" THEN "audit"
                   ELSE IF r.lookup = "warmup" THEN "session" ELSE "exercise"]
AfterLookup(r, video) ==
  [r EXCEPT !.video = video,
            !.pc = IF r.lookup = "warmup" THEN "session" ELSE "exercise"]

\* slots that serve generation requests: one generation is in flight at a
\* time, the other requests run between its statements
Generators == {1}

\* ---------------------------- POST /api/generate-workout-program
\* validation and fetchUserProfile (which returns null when its SELECT fails)
Generate_FetchProfile(p, clerkId, params, selectOk) ==
  /\ WorkoutCanStart(p)
  /\ p \in Generators
  /\ started' = started + 1
  /\ LET r == [op |-> "generateProgram", pc |-> "gemini", clerk |-> clerkId,
               workoutDays |-> params.workoutDays,
               programWeeks |-> params.programWeeks,
               programData |-> "none", programId |-> NoId,
               workoutDates |-> <<>>, d |-> 0, sessionData |-> NoSession,
               sessionId |-> NoId, i |-> 0, lookup |-> "none",
               video |-> "null", search |-> "none", writes |-> 0]
     IN IF clerkId = NoId
          THEN WorkoutFinish(p, GenerateRespond(r, HTTP_BAD_REQUEST,
                                                "Clerk ID is required"))
          ELSE IF ~(clerkId \in Profiles /\ selectOk)
                 THEN WorkoutFinish(p, GenerateRespond(r, HTTP_NOT_FOUND,
                                                       "User profile not found"))
                 ELSE WorkoutContinue(p, r)
  /\ UNCHANGED <<workout_programs, workout_sessions, workout_exercises,
                 ai_workout_decisions, exercise_video_cache>>
  /\ UNCHANGED generateFrame

\* const programData = await callGeminiAPI(prompt)
Generate_CallGemini(p, failure, data) ==
  /\ wreq[p].op = "generateProgram" /\ wreq[p].pc = "gemini"
  /\ LET r == wreq[p]
         g == callGeminiAPI(failure, data)
     IN IF g.threw
          THEN GenerateCatch(p, r, g.message)
          ELSE /\ WorkoutContinue(p, [r EXCEPT !.programData = g.data,
                                               !.pc = "program"])
               /\ UNCHANGED ai_workout_decisions
  /\ UNCHANGED <<workout_programs, workout_sessions, workout_exercises,
                 exercise_video_cache, started>>
  /\ UNCHANGED generateFrame

\* createWorkoutProgram: INSERT INTO workout_programs, then the dates and
\* the session map
Generate_InsertProgram(p) ==
  /\ wreq[p].op = "generateProgram" /\ wreq[p].pc = "program"
  /\ LET r == wreq[p]
         startDate == today
         programId == NextId(workout_programs)
         workoutDates == calculateWorkoutDates(startDate, r.workoutDays,
                                               r.programWeeks, ServerTimeZone)
         n == [r EXCEPT !.programId = programId,
                        !.workoutDates = workoutDates, !.writes = @ + 1]
     IN /\ workout_programs' = workout_programs \cup
             {ProgramRow(programId, r.clerk, r.programData.programName, startDate)}
        /\ WorkoutContinue(p,
             EnterSlot(n, NextSlot(r.programData.weeks, workoutDates, 1)))
  /\ UNCHANGED <<workout_sessions, workout_exercises, ai_workout_decisions,
                 exercise_video_cache, started>>
  /\ UNCHANGED generateFrame

\* getYouTubeVideo: SELECT ... FROM exercise_video_cache; on a miss the
\* search request, which yields a video id (fetched in VideoIds) or nothing;
\* search keeps, until the INSERT the lookup was for, why it yielded nothing
Generate_VideoSelect(p, fetched) ==
  /\ wreq[p].op = "generateProgram" /\ wreq[p].pc = "video"
  /\ LET r == wreq[p]
         cached == {c \in exercise_video_cache :
                      c.exercise_name = LowerCase(LookupName(r))}
     IN IF cached # {}
          THEN WorkoutContinue(p,
                 [r EXCEPT !.pc = "video_hit",
                           !.video = (CHOOSE c \in cached : TRUE).video_id])
          ELSE IF fetched \notin VideoIds
                 THEN WorkoutContinue(p,
                        AfterLookup([r EXCEPT !.search = fetched], "null"))
                 ELSE WorkoutContinue(p, [r EXCEPT !.pc = "video_cache",
                                                   !.video = fetched])
  /\ UNCHANGED <<workout_programs, workout_sessions, workout_exercises,
                 ai_workout_decisions, exercise_video_cache, started>>
  /\ UNCHANGED generateFrame

\* getYouTubeVideo, cache hit: UPDATE ... SET use_count = use_count + 1
Generate_VideoUpdate(p) ==
  /\ wreq[p].op = "generateProgram" /\ wreq[p].pc = "video_hit"
  /\ LET r == wreq[p]
     IN /\ exercise_video_cache' =
             CacheTouch(exercise_video_cache, LowerCase(LookupName(r)))
        /\ WorkoutContinue(p, AfterLookup(r, r.video))
  /\ UNCHANGED <<workout_programs, workout_sessions, workout_exercises,
                 ai_workout_decisions, started>>
  /\ UNCHANGED generateFrame

\* getYouTubeVideo, video fetched: INSERT INTO exercise_video_cache ... ON
\* CONFLICT (exercise_name) DO NOTHING; if the statement throws, the catch
\* of getYouTubeVideo returns null
Generate_VideoCache(p, insertOk) ==
  /\ wreq[p].op = "generateProgram" /\ wreq[p].pc = "video_cache"
  /\ LET r == wreq[p]
         name == LowerCase(LookupName(r))
     IN IF insertOk
          THEN /\ exercise_video_cache' =
                    CacheInsert(exercise_video_cache, name, r.video)
               /\ WorkoutContinue(p, AfterLookup(r, r.video))
          ELSE /\ UNCHANGED exercise_video_cache
               /\ WorkoutContinue(p, AfterLookup(r, "null"))
  /\ UNCHANGED <<workout_programs, workout_sessions, workout_exercises,
                 ai_workout_decisions, started>>
  /\ UNCHANGED generateFrame

\* INSERT INTO workout_sessions ... RETURNING id
Generate_InsertSession(p) ==
  /\ wreq[p].op = "generateProgram" /\ wreq[p].pc = "session"
  /\ LET r == wreq[p]
         sessionId == NextId(workout_sessions)
         n == [r EXCEPT !.sessionId = sessionId, !.i = 0, !.writes = @ + 1,
                        !.video = "null", !.search = "none"]
     IN /\ workout_sessions' = workout_sessions \cup
             {SessionRow(sessionId, r.clerk, r.programId, r.workoutDates[r.d],
                         r.video)}
        /\ IF r.sessionData.exercises = <<>>
             THEN WorkoutContinue(p,
                    EnterSlot(n, NextSlot(r.programData.weeks, r.workoutDates,
                                          r.d + 1)))
             ELSE WorkoutContinue(p, [n EXCEPT !.pc = "video",
                                               !.lookup = "exercise"])
  /\ UNCHANGED <<workout_programs, workout_exercises, ai_workout_decisions,
                 exercise_video_cache, started>>
  /\ UNCHANGED generateFrame

\* INSERT INTO workout_exercises for sessionData.exercises[i]
Generate_InsertExercise(p) ==
  /\ wreq[p].op = "generateProgram" /\ wreq[p].pc = "exercise"
  /\ LET r == wreq[p]
         exercise == r.sessionData.exercises[r.i + 1]
         n == [r EXCEPT !.i = @ + 1, !.writes = @ + 1, !.video = "null",
                        !.search = "none"]
     IN /\ workout_exercises' = workout_exercises \cup
             {ExerciseRow(NextId(workout_exercises), r.sessionId, exercise.name,
                          r.i, r.video)}
        /\ IF r.i + 1 < Len(r.sessionData.exercises)
             THEN WorkoutContinue(p, [n EXCEPT !.pc = "video",
                                               !.lookup = "exercise"])
             ELSE WorkoutContinue(p,
                    EnterSlot(n, NextSlot(r.programData.weeks, r.workoutDates,
                                          r.d + 1)))
  /\ UNCHANGED <<workout_programs, workout_sessions, ai_workout_decisions,
                 exercise_video_cache, started>>
  /\ UNCHANGED generateFrame

\* INSERT INTO ai_workout_decisions, then the success response
Generate_LogDecision(p) ==
  /\ wreq[p].op = "generateProgram" /\ wreq[p].pc = "audit"
  /\ LET r == wreq[p]
     IN /\ ai_workout_decisions' = ai_workout_decisions \cup
             {DecisionRow(NextId(ai_workout_decisions), r.clerk, r.programId)}
        /\ WorkoutFinish(p, GenerateRespond([r EXCEPT !.writes = @ + 1],
                                            HTTP_OK, "none"))
  /\ UNCHANGED <<workout_programs, workout_sessions, workout_exercises,
                 exercise_video_cache, started>>
  /\ UNCHANGED generateFrame

\* the next statement of a generation throws outside getYouTubeVideo's try
Generate_Error_Rollback(p) ==
  /\ wreq[p].op = "generateProgram"
  /\ wreq[p].pc \in {"program", "video", "video_hit", "session", "exercise",
                     "audit"}
  /\ GenerateCatch(p, wreq[p], "database error")
  /\ workout_programs' =
       {g \in workout_programs : g.id # wreq[p].programId}
  /\ workout_sessions' =
       {s \in workout_sessions : s.program_id # wreq[p].programId}
  /\ workout_exercises' =
       {e \in workout_exercises :
          \A s \in workout_sessions :
            s.id = e.workout_session_id => s.program_id # wreq[p].programId}
  /\ UNCHANGED <<exercise_video_cache, started>>
  /\ UNCHANGED generateFrame
Generate_Error(p) ==
  /\ wreq[p].op = "generateProgram"
  /\ wreq[p].pc \in {"program", "video", "video_hit", "session", "exercise",
                     "audit"}
  /\ GenerateCatch(p, wreq[p], "database error")
  /\ UNCHANGED <<workout_programs, workout_sessions, workout_exercises,
                 exercise_video_cache, started>>
  /\ UNCHANGED generateFrame

\* ------------------------------------------- /api/workout-programs
\* NextResponse.json(...) of a workout-programs request
ProgramRespond(op, clerkId, programId, status) ==
  [op |-> op, status |-> status, clerk |-> clerkId, session |-> NoId,
   markedIn |-> NoId, programId |-> programId, details |-> "none",
   writes |-> 0]

\* the columns of workout_programs an UPDATE can name
ProgramColumns == {"id", "clerk_id", "program_name", "status", "start_date"}

\* request bodies' updates, as Object.entries(updates) lists them
ProgramUpdates ==
  << << <<"program_name", "Renamed">> >>,
     << <<"start_date", 2>> >>,
     << <<"no_such_column", 1>> >>,
     << >> >>

\* SET ${key} = $n for every entry of updates
ApplyUpdates(row, updates) ==
  [column \in DOMAIN row |->
     IF \E k \in DOMAIN updates : updates[k][1] = column
       THEN updates[CHOOSE k \in DOMAIN updates : updates[k][1] = column][2]
       ELSE row[column]]

programFrame ==
  <<questVars, analysisVars, workout_sessions, workout_exercises, muscle_balance_history,
    workout_feedback, ai_workout_decisions, exercise_video_cache, wreq, today,
    call, result>>

\* POST: INSERT INTO workout_programs with start_date today
Program_Create(p, clerkId, programName, insertOk) ==
  /\ WorkoutCanStart(p)
  /\ started' = started + 1
  /\ IF clerkId = NoId \/ programName = ""
       THEN /\ wresponse' = ProgramRespond("createProgram", clerkId, NoId,
                                           HTTP_BAD_REQUEST)
            /\ UNCHANGED workout_programs
       ELSE IF ~insertOk
              THEN /\ wresponse' = ProgramRespond("createProgram", clerkId, NoId,
                                                  HTTP_INTERNAL)
                   /\ UNCHANGED workout_programs
              ELSE LET programId == NextId(workout_programs)
                   IN /\ workout_programs' = workout_programs \cup
                           {ProgramRow(programId, clerkId, programName, today)}
                      /\ wresponse' = ProgramRespond("createProgram", clerkId,
                                                     programId, HTTP_OK)
  /\ UNCHANGED programFrame

\* PUT: UPDATE workout_programs SET <updates> WHERE id AND clerk_id; executes
\* is whether sql(query, values) runs the statement or throws
Program_Update(p, programId, clerkId, updates, executes) ==
  /\ WorkoutCanStart(p)
  /\ started' = started + 1
  /\ LET hit == {r \in workout_programs :
                   r.id = programId /\ r.clerk_id = clerkId}
         respond(status) ==
           wresponse' = ProgramRespond("updateProgram", clerkId, programId, status)
     IN IF programId = NoId \/ clerkId = NoId \/ Len(updates) = 0
          THEN respond(HTTP_BAD_REQUEST) /\ UNCHANGED workout_programs
          ELSE IF \/ ~executes
                  \/ \E k \in DOMAIN updates : updates[k][1] \notin ProgramColumns
                 THEN respond(HTTP_INTERNAL) /\ UNCHANGED workout_programs
                 ELSE /\ workout_programs' =
                           {IF r \in hit THEN ApplyUpdates(r, updates) ELSE r :
                            r \in workout_programs}
                      /\ IF hit = {} THEN respond(HTTP_NOT_FOUND)
                                     ELSE respond(HTTP_OK)
  /\ UNCHANGED programFrame

\* DELETE: UPDATE workout_programs SET status = 'deleted' WHERE id AND clerk_id
Program_Delete(p, programId, clerkId, updateOk) ==
  /\ WorkoutCanStart(p)
  /\ started' = started + 1
  /\ LET hit == {r \in workout_programs :
                   r.id = programId /\ r.clerk_id = clerkId}
         respond(status) ==
           wresponse' = ProgramRespond("deleteProgram", clerkId, programId, status)
     IN IF programId = NoId \/ clerkId = NoId
          THEN respond(HTTP_BAD_REQUEST) /\ UNCHANGED workout_programs
          ELSE IF ~updateOk
                 THEN respond(HTTP_INTERNAL) /\ UNCHANGED workout_programs
                 ELSE /\ workout_programs' =
                           {IF r \in hit THEN [r EXCEPT !.status = "deleted"] ELSE r :
                            r \in workout_programs}
                      /\ IF hit = {} THEN respond(HTTP_NOT_FOUND)
                                     ELSE respond(HTTP_OK)
  /\ UNCHANGED programFrame

\* the program the update and delete requests name (the first one created;
\* later programs show what those requests leave alone)
ProgramIds == {1}

\* The video cache holds a video found by an earlier generation; no program
\* exists yet.
InitProgram ==
  /\ NoQuests /\ NoAnalysis /\ started = 0
  /\ workout_programs = {} /\ workout_sessions = {} /\ workout_exercises = {}
  /\ muscle_balance_history = {} /\ workout_feedback = {}
  /\ ai_workout_decisions = {}
  /\ exercise_video_cache =
       {[exercise_name |-> "squat", video_id |-> "v1", use_count |-> 1]}
  /\ wreq = [p \in Procs |-> WorkoutIdle] /\ wresponse = NoWorkoutResponse
  /\ today = 1 /\ call = NotCalled /\ result = NotCalled

\* The deployment has no key for the video search, so that a lookup that
\* misses the cache yields no video.
NextProgram ==
  \/ \E p \in Procs :
       \/ \E clerkId \in {NoId} \cup Clerks, params \in GenerateParams,
             selectOk \in BOOLEAN :
            Generate_FetchProfile(p, clerkId, params, selectOk)
       \/ \E failure \in {"none"} \cup GeminiErrors, data \in GeneratedPrograms :
            Generate_CallGemini(p, failure, data)
       \/ Generate_InsertProgram(p)
       \/ Generate_VideoSelect(p, "no_key")
       \/ Generate_VideoUpdate(p)
       \/ Generate_InsertSession(p)
       \/ Generate_InsertExercise(p)
       \/ Generate_LogDecision(p)
       \/ Generate_Error(p)
       \/ \E insertOk \in BOOLEAN : Program_Create(p, 1, "Custom", insertOk)
       \/ \E programId \in ProgramIds, clerkId \in Clerks,
             k \in DOMAIN ProgramUpdates, executes \in BOOLEAN :
            Program_Update(p, programId, clerkId, ProgramUpdates[k], executes)
       \/ \E programId \in ProgramIds, clerkId \in Clerks, updateOk \in BOOLEAN :
            Program_Delete(p, programId, clerkId, updateOk)

SpecProgram == InitProgram /\ [][NextProgram]_vars

\* ------------------------------------------------------------------
\* Claims about the program generator and the program routes
\* ------------------------------------------------------------------

\* the exercise rows of session s
ExercisesOf(s) == {e \in workout_exercises : e.workout_session_id = s.id}

\* C18: every session row the generator inserts has completion_status
\* scheduled and workout_type ai_generated; every exercise row it inserts
\* carries the name of the generated exercise at its order_index; and in
\* every reachable state, also after a generation that stopped part-way, the
\* order_index values of a session's exercises are exactly 1..n, each once.
C18_InsertsInOrder ==
  /\ \A s \in workout_sessions' \ workout_sessions :
       s.completion_status = "scheduled" /\ s.workout_type = "ai_generated"
  /\ \A e \in workout_exercises' \ workout_exercises :
       \E p \in Procs :
         /\ wreq[p].op = "generateProgram"
         /\ e.workout_session_id = wreq[p].sessionId
         /\ e.order_index \in DOMAIN wreq[p].sessionData.exercises
         /\ e.exercise_name = wreq[p].sessionData.exercises[e.order_index].name
C18_IndicesExact ==
  \A s \in workout_sessions :
    /\ {e.order_index : e \in ExercisesOf(s)} = 1..Cardinality(ExercisesOf(s))
    /\ \A e \in ExercisesOf(s), o \in ExercisesOf(s) :
         e.order_index = o.order_index => e = o
C19_FailedEarly ==
  /\ wresponse'.op = "generateProgram"
  /\ \/ wresponse'.status = HTTP_NOT_FOUND
     \/ wresponse'.details \in
          {"Gemini API key not configured", "Gemini API error",
           "Invalid response structure from Gemini API",
           "No JSON found in response", "Failed to parse JSON"}
C19_NoWriteBeforeGeneration ==
  [][C19_FailedEarly =>
       /\ wresponse'.writes = 0
       /\ wresponse'.programId = 0
       /\ workout_programs' = workout_programs
       /\ workout_sessions' = workout_sessions
       /\ workout_exercises' = workout_exercises
       /\ ai_workout_decisions' = ai_workout_decisions]_vars

\* a generation failed on an unparseable reply after an earlier generation
\* had written its rows
C19_Witness ==
  /\ wresponse.op = "generateProgram"
  /\ wresponse.details = "No JSON found in response"
  /\ wresponse.writes = 0
  /\ workout_sessions # {} /\ ai_workout_decisions # {}

\* C20: no step changes the start_date of an existing workout_programs row.
C20_StartDateImmutable ==
  [][\A a \in workout_programs, b \in workout_programs' :
       a.id = b.id => a.start_date = b.start_date]_vars

\* ==================================================================
\* Part 3: the analysis handlers (meal, exercise and recipe analysis, recipe
\* breakdown), their daily quota and their upstream retry loops
\* ==================================================================
HTTP_TOO_MANY == 429

\* if (userData.count >= 20)
DAILY_LIMIT == 20
\* const maxRetries = 3 (all four handlers)
maxRetries == 3
\* baseDelay = 1000 of retryWithBackoff, and the factor 1000 of the handlers
baseDelay == 1000

\* if (attempt === maxRetries) / const isLastAttempt = attempt === maxRetries
isLastAttempt_Never(attempt) == FALSE
isLastAttempt(attempt) == attempt = maxRetries

RECURSIVE Pow2(_)
Pow2(n) == IF n = 0 THEN 1 ELSE 2 * Pow2(n - 1)

\* What an upstream call yields: the HTTP status and what the body holds
\* (for status 200 the generated text: a JSON object with the required
\* fields, text without JSON, JSON lacking a numeric field; otherwise the
\* error text).
Replies ==
  {[status |-> 200, body |-> "json"],
   [status |-> 200, body |-> "no_json"],
   [status |-> 200, body |-> "bad_field"],
   [status |-> 400, body |-> "invalid"],
   [status |-> 429, body |-> "quota"],
   [status |-> 503, body |-> "overloaded"]}
NoReply == [status |-> 0, body |-> "none"]

\* the attempt of a meal, exercise or recipe analysis succeeds
AttemptOk(reply) == reply.status = HTTP_OK /\ reply.body = "json"

\* error.message of the Error an attempt throws
Message(h, reply) ==
  IF reply.status # HTTP_OK
    THEN IF h = "recipe"
           THEN CASE reply.status = HTTP_UNAVAILABLE ->
                       "Gemini API is temporarily unavailable"
                  [] reply.status = HTTP_TOO_MANY -> "Rate limit exceeded"
                  [] reply.status = HTTP_BAD_REQUEST ->
                       "Invalid request to Gemini API"
                  [] OTHER -> "Gemini API error"
           ELSE "Gemini API error"
    ELSE IF reply.body = "no_json"
           THEN IF h = "recipe"
                  THEN "Could not extract valid JSON from response"
                  ELSE "No JSON found in response"
           ELSE "Missing or invalid field"

\* isOverloaded of retryWithBackoff, on the message
\* `Gemini API error: ${res.status} - ${errorText}`
isOverloaded(reply) ==
  \/ reply.body \in {"overloaded", "quota", "rate limit"}
  \/ reply.status = HTTP_TOO_MANY

\* the status the catch of the breakdown handler answers with
BreakdownStatus(reply) ==
  IF reply.body = "overloaded" THEN HTTP_UNAVAILABLE
  ELSE IF reply.body \in {"quota", "rate limit"} THEN HTTP_TOO_MANY
  ELSE HTTP_INTERNAL

canMakeRequest_OffByOne(usage, date) ==
  IF usage.date = 0 \/ usage.date # date
    THEN [allowed |-> TRUE, usage |-> [count |-> 1, date |-> date]]
    ELSE IF usage.count > DAILY_LIMIT
           THEN [allowed |-> FALSE, usage |-> usage]
           ELSE [allowed |-> TRUE, usage |-> [usage EXCEPT !.count = @ + 1]]
\* canMakeRequest of the meal and exercise handlers on the user's entry
\* (date 0: no entry): what the call returns and the entry after it
canMakeRequest(usage, date) ==
  IF usage.date = 0 \/ usage.date # date
    THEN [allowed |-> TRUE, usage |-> [count |-> 1, date |-> date]]
    ELSE IF usage.count >= DAILY_LIMIT
           THEN [allowed |-> FALSE, usage |-> usage]
           ELSE [allowed |-> TRUE, usage |-> [usage EXCEPT !.count = @ + 1]]

AnalysisRunning(r) == r.pc # "idle"
AnalysisContinue(p, r) ==
  areq' = [areq EXCEPT ![p] = r] /\ aresponse' = NoAnalysisResponse
AnalysisFinish(p, r, status, error) ==
  /\ areq' = [areq EXCEPT ![p] = AnalysisIdle]
  /\ aresponse' = [op |-> r.op, status |-> status, user |-> r.user,
                   attempts |-> r.attempts, error |-> error]
AnalysisCanStart(p) ==
  /\ ~AnalysisRunning(areq[p])
  /\ \A o \in Procs : o < p => AnalysisRunning(areq[o])

analysisFrame == <<questVars, workoutVars>>

\* the local variables of a request of handler h entering its retry loop
\* with the first upstream call issued
FirstAttempt(h, u, first) ==
  [op |-> h, pc |-> "fetch", user |-> u, attempt |-> first, attempts |-> 1,
   lastError |-> NoReply, delay |-> 0]
NotAttempted(h, u) ==
  [op |-> h, pc |-> "idle", user |-> u, attempt |-> 0, attempts |-> 0,
   lastError |-> NoReply, delay |-> 0]

\* POST of meal-analysis and exercise-analysis up to the first fetch: body,
\* userId, the limiter, then the first pass of the loop
Analysis_Start(p, h, u, described, keyed) ==
  /\ AnalysisCanStart(p)
  /\ h \in LimitedHandlers
  /\ IF u = NoId
       THEN /\ AnalysisFinish(p, NotAttempted(h, u), HTTP_BAD_REQUEST,
                              "User ID is required for rate limiting")
            /\ UNCHANGED <<rateLimitMap, admittedToday>>
       ELSE LET limiter == canMakeRequest(rateLimitMap[h][u], today)
            IN /\ rateLimitMap' = [rateLimitMap EXCEPT ![h][u] = limiter.usage]
               /\ IF ~limiter.allowed
                    THEN /\ AnalysisFinish(p, NotAttempted(h, u), HTTP_TOO_MANY,
                                           "Daily analysis limit reached")
                         /\ UNCHANGED admittedToday
                    ELSE /\ admittedToday' =
                              [admittedToday EXCEPT ![h][u] = @ + 1]
                         /\ IF ~described
                              THEN AnalysisFinish(p, NotAttempted(h, u),
                                                  HTTP_BAD_REQUEST,
                                                  "Description is required")
                              ELSE IF ~keyed
                                     THEN AnalysisFinish(p, NotAttempted(h, u),
                                            HTTP_INTERNAL,
                                            "Gemini API key not configured")
                                     ELSE AnalysisContinue(p, FirstAttempt(h, u, 1))
  /\ UNCHANGED analysisFrame

\* POST of recipe-analysis up to the first fetch: it has no limiter
Recipe_Start(p, u, ingredients, keyed) ==
  /\ AnalysisCanStart(p)
  /\ IF u = NoId
       THEN AnalysisFinish(p, NotAttempted("recipe", u), HTTP_BAD_REQUEST,
                           "User ID is required for rate limiting")
       ELSE IF ~ingredients
              THEN AnalysisFinish(p, NotAttempted("recipe", u), HTTP_BAD_REQUEST,
                                  "Ingredients array is required")
              ELSE IF ~keyed
                     THEN AnalysisFinish(p, NotAttempted("recipe", u),
                                         HTTP_INTERNAL,
                                         "Gemini API key not configured")
                     ELSE AnalysisContinue(p, FirstAttempt("recipe", u, 1))
  /\ UNCHANGED <<rateLimitMap, admittedToday>>
  /\ UNCHANGED analysisFrame

\* the fetch of attempt r.attempt returns; the rest of the try block and the
\* catch block of the meal, exercise and recipe handlers
Analysis_Reply(p, reply) ==
  /\ areq[p].op \in {"meal", "exercise", "recipe"} /\ areq[p].pc = "fetch"
  /\ LET r == areq[p]
     IN IF AttemptOk(reply)
          THEN AnalysisFinish(p, r, HTTP_OK, "none")
          ELSE IF isLastAttempt(r.attempt)
                 THEN AnalysisFinish(p, r, HTTP_INTERNAL, Message(r.op, reply))
                 ELSE AnalysisContinue(p,
                        [r EXCEPT !.pc = "wait", !.lastError = reply,
                                  !.delay = Pow2(r.attempt) * baseDelay])
  /\ UNCHANGED <<rateLimitMap, admittedToday, started>>
  /\ UNCHANGED analysisFrame

\* the backoff timer fires: attempt++ and the next pass up to its fetch
Analysis_Retry(p) ==
  /\ areq[p].op \in {"meal", "exercise", "recipe"} /\ areq[p].pc = "wait"
  /\ AnalysisContinue(p, [areq[p] EXCEPT !.pc = "fetch", !.attempt = @ + 1,
                                         !.attempts = @ + 1])
  /\ UNCHANGED <<rateLimitMap, admittedToday, started>>
  /\ UNCHANGED analysisFrame

\* POST of recipe-breakdown up to the first fetch of retryWithBackoff
Breakdown_Start(p, keyed, videoUrl) ==
  /\ AnalysisCanStart(p)
  /\ IF ~keyed
       THEN AnalysisFinish(p, NotAttempted("breakdown", NoId), HTTP_INTERNAL,
                           "Gemini API key not configured")
       ELSE IF ~videoUrl
              THEN AnalysisFinish(p, NotAttempted("breakdown", NoId),
                                  HTTP_BAD_REQUEST, "Video URL is required")
              ELSE AnalysisContinue(p, FirstAttempt("breakdown", NoId, 0))
  /\ UNCHANGED <<rateLimitMap, admittedToday>>
  /\ UNCHANGED analysisFrame

\* the fetch inside retryWithBackoff returns: the catch of retryWithBackoff,
\* then the rest of POST (a reply whose text cannot be parsed is answered
\* with success and an error object as data)
Breakdown_Reply(p, reply) ==
  /\ areq[p].op = "breakdown" /\ areq[p].pc = "fetch"
  /\ LET r == areq[p]
     IN IF reply.status = HTTP_OK
          THEN AnalysisFinish(p, r, HTTP_OK,
                              IF reply.body = "no_json"
                                THEN "Failed to parse response" ELSE "none")
          ELSE IF isLastAttempt(r.attempt) \/ ~isOverloaded(reply)
                 THEN AnalysisFinish(p, r, BreakdownStatus(reply),
                                     "Gemini API error")
                 ELSE AnalysisContinue(p,
                        [r EXCEPT !.pc = "wait", !.lastError = reply,
                                  !.delay = baseDelay * Pow2(r.attempt)])
  /\ UNCHANGED <<rateLimitMap, admittedToday, started>>
  /\ UNCHANGED analysisFrame

\* the timer of retryWithBackoff fires: attempt++ and the next fetch
Breakdown_Retry(p) ==
  /\ areq[p].op = "breakdown" /\ areq[p].pc = "wait"
  /\ AnalysisContinue(p, [areq[p] EXCEPT !.pc = "fetch", !.attempt = @ + 1,
                                         !.attempts = @ + 1])
  /\ UNCHANGED <<rateLimitMap, admittedToday, started>>
  /\ UNCHANGED analysisFrame

\* midnight UTC: new Date().toISOString().split('T')[0] yields the next day
MidnightUTC ==
  /\ today + 1 \in Dates
  /\ today' = today + 1
  /\ admittedToday' = [h \in LimitedHandlers |-> [u \in Users |-> 0]]
  /\ aresponse' = NoAnalysisResponse
  /\ UNCHANGED <<questVars, started, workoutTables, wreq, wresponse, call,
                 result, rateLimitMap, areq>>

\* a request arrives within the request budget / outside any budget
Arrives == started < MaxRequests /\ started' = started + 1
ArrivesUncounted == UNCHANGED started

InitAnalysis == NoQuests /\ NoWorkouts /\ NoAnalysis /\ started = 0

\* The retry loops: up to MaxRequests requests of the four handlers, running
\* concurrently, each upstream call answered by any reply.
NextRetry ==
  \E p \in Procs :
    \/ \E h \in LimitedHandlers, u \in Users :
         Arrives /\ Analysis_Start(p, h, u, TRUE, TRUE)
    \/ \E u \in Users, ingredients \in BOOLEAN :
         Arrives /\ Recipe_Start(p, u, ingredients, TRUE)
    \/ \E keyed \in BOOLEAN, videoUrl \in BOOLEAN :
         Arrives /\ Breakdown_Start(p, keyed, videoUrl)
    \/ \E reply \in Replies : Analysis_Reply(p, reply)
    \/ Analysis_Retry(p)
    \/ \E reply \in Replies : Breakdown_Reply(p, reply)
    \/ Breakdown_Retry(p)

SpecRetry == InitAnalysis /\ [][NextRetry]_vars

\* every request in flight goes on: upstream calls return and timers fire
AnalysisStep(p) ==
  \/ \E reply \in Replies : Analysis_Reply(p, reply)
  \/ Analysis_Retry(p)
  \/ \E reply \in Replies : Breakdown_Reply(p, reply)
  \/ Breakdown_Retry(p)
RetryFairness == \A p \in Procs : WF_vars(AnalysisStep(p))

SpecRetryFair == SpecRetry /\ RetryFairness

\* The quota: any number of meal and exercise analysis requests of one
\* user, one at a time, over the days of Dates.
QuotaReplies ==
  {[status |-> 200, body |-> "json"], [status |-> 503, body |-> "overloaded"]}

NextQuota ==
  \/ \E h \in LimitedHandlers, u \in {NoId} \cup Users, described \in BOOLEAN :
       ArrivesUncounted /\ Analysis_Start(1, h, u, described, TRUE)
  \/ \E reply \in QuotaReplies : Analysis_Reply(1, reply)
  \/ Analysis_Retry(1)
  \/ MidnightUTC

SpecQuota == InitAnalysis /\ [][NextQuota]_vars

\* ------------------------------------------------------------------
\* Claims about the quota and the retry loops
\* ------------------------------------------------------------------

\* the step receives a request of limited handler h from user u
QuotaArrival(h, u) ==
  /\ ~AnalysisRunning(areq[1])
  /\ \/ AnalysisRunning(areq'[1]) /\ areq'[1].op = h /\ areq'[1].user = u
     \/ aresponse'.op = h /\ aresponse'.user = u

\* C21: per handler, user and UTC day at most 20 requests are admitted; a
\* request arriving after 20 were admitted that day is answered 429 with no
\* upstream call; a request arriving when the user's entry is of an earlier
\* day is admitted and restarts the entry at count 1 for today.
C21_AtMostTwenty ==
  \A h \in LimitedHandlers, u \in Users : admittedToday[h][u] <= 20
C21_QuotaStep ==
  \A h \in LimitedHandlers, u \in Users :
    /\ QuotaArrival(h, u) /\ admittedToday[h][u] = 20 =>
         /\ aresponse'.status = 429 /\ aresponse'.attempts = 0
         /\ ~AnalysisRunning(areq'[1])
         /\ admittedToday'[h][u] = 20
    /\ QuotaArrival(h, u) /\ rateLimitMap[h][u].date \notin {0, today} =>
         /\ aresponse'.status # 429
         /\ admittedToday'[h][u] = 1
         /\ rateLimitMap'[h][u] = [count |-> 1, date |-> today]
C22_RetryOnlyUnavailable ==
  [][\A p \in Procs :
       (/\ AnalysisRunning(areq[p]) /\ AnalysisRunning(areq'[p])
        /\ areq'[p].attempts = areq[p].attempts + 1)
       => areq[p].lastError.status \in {429, 503}]_vars

\* C23: a request in a retry loop makes at most 3 upstream attempts (4 in
\* retryWithBackoff), each wait is twice the wait before it, and the request
\* ends with a response: as finitely many requests arrive, eventually no
\* request is in flight any more, whatever the upstream replies.
C23_Bounded ==
  /\ \A p \in Procs :
       AnalysisRunning(areq[p]) =>
         areq[p].attempts <= IF areq[p].op = "breakdown" THEN 4 ELSE 3
  /\ aresponse.attempts <= IF aresponse.op = "breakdown" THEN 4 ELSE 3
C23_Doubling ==
  \A p \in Procs :
    (/\ AnalysisRunning(areq[p]) /\ AnalysisRunning(areq'[p])
     /\ areq'[p].delay # areq[p].delay)
    => \/ areq[p].delay = 0
          /\ areq'[p].delay = IF areq[p].op = "breakdown" THEN 1000 ELSE 2000
       \/ areq[p].delay > 0 /\ areq'[p].delay = 2 * areq[p].delay
VideoQueries == {"", "Row", "ROW"}

\* the status of a non-2xx reply of the search service
HTTP_FORBIDDEN == 403

\* NextResponse.json(...) of an exercise-videos request; details is the
\* videoId of the body (or the error)
VideoRespond(status, details) ==
  [op |-> "getVideo", status |-> status, clerk |-> NoId, session |-> NoId,
   markedIn |-> NoId, programId |-> NoId, details |-> details, writes |-> 0]

\* what a step of the exercise-videos route leaves alone
videoFrame ==
  <<questVars, analysisVars, workout_programs, workout_sessions,
    workout_exercises, muscle_balance_history, workout_feedback,
    ai_workout_decisions, today, call, result>>

\* GET: the exercise parameter, SELECT ... FROM exercise_video_cache WHERE
\* exercise_name = lower-cased name, and on a miss the search request
VideoGet_Select(p, exerciseName, outcome) ==
  /\ WorkoutCanStart(p)
  /\ started' = started + 1
  /\ LET cached == {c \in exercise_video_cache :
                      c.exercise_name = LowerCase(exerciseName)}
         r == [op |-> "getVideo", pc |-> "get_hit",
               exerciseName |-> exerciseName, video |-> "null"]
     IN IF exerciseName = ""
          THEN WorkoutFinish(p, VideoRespond(HTTP_BAD_REQUEST,
                                             "Exercise name is required"))
          ELSE IF cached # {}
            THEN WorkoutContinue(p,
                   [r EXCEPT !.video = (CHOOSE c \in cached : TRUE).video_id])
            ELSE CASE outcome = "no_key" ->
                        WorkoutFinish(p, VideoRespond(HTTP_INTERNAL,
                                        "YouTube API key not configured"))
                   [] outcome = "not_ok" ->
                        WorkoutFinish(p, VideoRespond(HTTP_FORBIDDEN,
                                        "Failed to fetch video from YouTube"))
                   [] outcome = "empty" ->
                        WorkoutFinish(p, VideoRespond(HTTP_NOT_FOUND,
                                        "No videos found"))
                   [] outcome = "exception" ->
                        WorkoutFinish(p, VideoRespond(HTTP_INTERNAL,
                                        "Failed to fetch exercise video"))
                   [] OTHER ->
                        WorkoutContinue(p, [r EXCEPT !.pc = "get_cache",
                                                     !.video = outcome])
  /\ UNCHANGED exercise_video_cache
  /\ UNCHANGED videoFrame

\* cache hit: UPDATE ... SET last_used_at = NOW(), use_count = use_count + 1
VideoGet_Update(p, updateOk) ==
  /\ wreq[p].op = "getVideo" /\ wreq[p].pc = "get_hit"
  /\ LET r == wreq[p]
     IN IF updateOk
          THEN /\ exercise_video_cache' =
                    CacheTouch(exercise_video_cache, LowerCase(r.exerciseName))
               /\ WorkoutFinish(p, VideoRespond(HTTP_OK, r.video))
          ELSE /\ UNCHANGED exercise_video_cache
               /\ WorkoutFinish(p, VideoRespond(HTTP_INTERNAL,
                                     "Failed to fetch exercise video"))
  /\ UNCHANGED started
  /\ UNCHANGED videoFrame

\* video found: INSERT ... ON CONFLICT (exercise_name) DO NOTHING, then the
\* fetched video is returned
VideoGet_Cache(p, insertOk) ==
  /\ wreq[p].op = "getVideo" /\ wreq[p].pc = "get_cache"
  /\ LET r == wreq[p]
     IN IF insertOk
          THEN /\ exercise_video_cache' =
                    CacheInsert(exercise_video_cache,
                                LowerCase(r.exerciseName), r.video)
               /\ WorkoutFinish(p, VideoRespond(HTTP_OK, r.video))
          ELSE /\ UNCHANGED exercise_video_cache
               /\ WorkoutFinish(p, VideoRespond(HTTP_INTERNAL,
                                     "Failed to fetch exercise video"))
  /\ UNCHANGED started
  /\ UNCHANGED videoFrame

\* An empty cache, an API key for the search service, one generation of the
\* second structure at a time and exercise-videos requests beside it.
InitVideo ==
  /\ NoQuests /\ NoAnalysis /\ NoWorkouts /\ started = 0

VideoPrograms == {g \in GeneratedPrograms : g.programName = "Mobility"}

NextVideo ==
  \/ \E p \in Procs :
       \/ \E params \in GenerateParams :
            Generate_FetchProfile(p, 1, params, TRUE)
       \/ \E data \in VideoPrograms : Generate_CallGemini(p, "none", data)
       \/ Generate_InsertProgram(p)
       \/ \E fetched \in SearchOutcomes : Generate_VideoSelect(p, fetched)
       \/ Generate_VideoUpdate(p)
       \/ \E insertOk \in BOOLEAN : Generate_VideoCache(p, insertOk)
       \/ Generate_InsertSession(p)
       \/ Generate_InsertExercise(p)
       \/ Generate_LogDecision(p)
       \/ Generate_Error(p)
       \/ \E exerciseName \in VideoQueries, outcome \in SearchOutcomes :
            VideoGet_Select(p, exerciseName, outcome)
       \/ \E updateOk \in BOOLEAN : VideoGet_Update(p, updateOk)
       \/ \E insertOk \in BOOLEAN : VideoGet_Cache(p, insertOk)

SpecVideo == InitVideo /\ [][NextVideo]_vars

\* the name a request in flight looks up, lower-cased
HitName(r) ==
  IF r.op = "getVideo" THEN LowerCase(r.exerciseName)
  ELSE LowerCase(LookupName(r))

\* request p is about to run the UPDATE of a cache hit and the step runs it
HitStep(p) ==
  \/ /\ wreq[p].op = "getVideo" /\ wreq[p].pc = "get_hit"
     /\ wreq'[p] # wreq[p]
     /\ wresponse'.op = "getVideo" /\ wresponse'.status = HTTP_OK
  \/ /\ wreq[p].op = "generateProgram" /\ wreq[p].pc = "video_hit"
     /\ wreq'[p].op = "generateProgram"
     /\ wreq'[p].pc \in {"session", "exercise"}

\* C24: the cache holds at most one entry per lower-cased name; the video of
\* an entry is the one it was created with; a step changes an entry only by
\* raising use_count by one, and it does so exactly when it is the UPDATE of
\* a hit for that name; an INSERT for a name that already has an entry (a
\* second miss that lost the race) leaves the entry as it is.
C24_OnePerName ==
  \A a \in exercise_video_cache :
    /\ LowerCase(a.exercise_name) = a.exercise_name
    /\ a.use_count >= 1
    /\ \A b \in exercise_video_cache :
         a.exercise_name = b.exercise_name => a = b
C24_EntryStep ==
  \A a \in exercise_video_cache :
    \E b \in exercise_video_cache' :
      /\ b.exercise_name = a.exercise_name
      /\ b.video_id = a.video_id
      /\ b.use_count =
           IF \E p \in Procs : HitStep(p) /\ HitName(wreq[p]) = a.exercise_name
             THEN a.use_count + 1
             ELSE a.use_count
C24_CacheEntries == []C24_OnePerName /\ [][C24_EntryStep]_vars

\* an exercise-videos request that missed the cache returns the video it
\* fetched (v2) after another miss created the entry (with v1) and a hit
\* counted a use of it
C24_Witness ==
  /\ wresponse.op = "getVideo" /\ wresponse.status = HTTP_OK
  /\ wresponse.details = "v2"
  /\ \E c \in exercise_video_cache :
       c.exercise_name = "row" /\ c.video_id = "v1" /\ c.use_count = 2

\* the sessions of the generated weeks with the week number and the weekday
\* name of slot
GeneratedFor(weeks, slot) ==
  {g \in UNION {{weeks[a].sessions[b] : b \in DOMAIN weeks[a].sessions} :
                a \in {a \in DOMAIN weeks : weeks[a].weekNumber = slot.week}} :
     g.dayOfWeek = slot.dayOfWeek}

\* the session rows of program programId in table t for slot
RowsFor(t, programId, slot) ==
  {s \in t : /\ s.program_id = programId
             /\ s.week_number = slot.week
             /\ s.session_number = slot.sessionNumber}

\* the exercise names of session row s in the order of order_index
NamesOf(t, s) ==
  LET rows == {e \in t : e.workout_session_id = s.id}
  IN [k \in 1..Cardinality(rows) |->
        (CHOOSE e \in rows : e.order_index = k).exercise_name]

\* C25: when a generation completes (200), every computed slot whose week and
\* weekday the generated structure has a session for has one session row, on
\* the slot's date and with that session's exercises in order; every other
\* slot has no row, and the program has no session row outside its slots.
\* While a generation runs, every session row of its program belongs to a
\* slot the structure has a session for.
C25_Completes(p) ==
  /\ wreq[p].op = "generateProgram" /\ wreq[p].pc = "audit"
  /\ wreq'[p] # wreq[p]
  /\ wresponse'.op = "generateProgram" /\ wresponse'.status = HTTP_OK
C25_OnCompletion ==
  \A p \in Procs :
    C25_Completes(p) =>
      LET r == wreq[p]
          weeks == r.programData.weeks
      IN /\ \A d \in DOMAIN r.workoutDates :
              LET slot == r.workoutDates[d]
                  rows == RowsFor(workout_sessions', r.programId, slot)
              IN IF GeneratedFor(weeks, slot) = {}
                   THEN rows = {}
                   ELSE /\ Cardinality(rows) = 1
                        /\ \A s \in rows :
                             /\ s.scheduled_date = slot.date
                             /\ \E g \in GeneratedFor(weeks, slot) :
                                  NamesOf(workout_exercises', s) =
                                    [k \in DOMAIN g.exercises |->
                                       g.exercises[k].name]
         /\ \A s \in workout_sessions' :
              s.program_id = r.programId =>
                \E d \in DOMAIN r.workoutDates :
                  s \in RowsFor(workout_sessions', r.programId,
                                r.workoutDates[d])
C25_OnlyMatched ==
  \A p \in Procs :
    (wreq[p].op = "generateProgram" /\ wreq[p].programId # NoId) =>
      \A s \in workout_sessions :
        s.program_id = wreq[p].programId =>
          \E d \in DOMAIN wreq[p].workoutDates :
            /\ s \in RowsFor(workout_sessions, wreq[p].programId,
                             wreq[p].workoutDates[d])
            /\ GeneratedFor(wreq[p].programData.weeks,
                            wreq[p].workoutDates[d]) # {}
C25_SlotsAndSessions == [][C25_OnCompletion]_vars /\ []C25_OnlyMatched

\* a generation of "Mobility" completed: the Monday slot of week 1 was
\* skipped, the Wednesday slot has the only session row, and the generated
\* sessions of Friday and of week 2 have none
C25_Witness ==
  /\ wresponse.op = "generateProgram" /\ wresponse.status = HTTP_OK
  /\ \E g \in workout_programs :
       /\ g.id = wresponse.programId /\ g.program_name = "Mobility"
       /\ \E s \in workout_sessions :
            /\ s.program_id = g.id /\ s.session_number = 2
            /\ \A o \in workout_sessions : o.program_id = g.id => o = s
            /\ {e.exercise_name : e \in ExercisesOf(s)} = {"Row"}

\* request p is a generation whose INSERT of a session or of an exercise
\* throws in this step
C26_FailsInLoop(p) ==
  /\ wreq[p].op = "generateProgram" /\ wreq[p].pc \in {"session", "exercise"}
  /\ wreq'[p] # wreq[p]
  /\ wresponse'.op = "generateProgram" /\ wresponse'.status = HTTP_INTERNAL

\* C26: when the INSERT of a session or of an exercise fails inside the
\* scheduling loop, the request answers 500 and the step removes nothing: the
\* program row and the session and exercise rows the request wrote are still
\* there, and no audit row names the program.  No later step removes a
\* program, session or exercise row, and an audit row is only ever written
\* by the step that completes a generation with 200.
C26_FailureKeepsRows ==
  \A p \in Procs :
    C26_FailsInLoop(p) =>
      LET r == wreq[p]
          sessions == {s \in workout_sessions' : s.program_id = r.programId}
          exercises == {e \in workout_exercises' :
                          \E s \in sessions : e.workout_session_id = s.id}
      IN /\ \E g \in workout_programs' : g.id = r.programId
         /\ 1 + Cardinality(sessions) + Cardinality(exercises) = r.writes
         /\ wresponse'.writes = r.writes
         /\ \A d \in ai_workout_decisions' : d.program_id # r.programId
C26_NothingRemoved ==
  /\ \A g \in workout_programs : \E n \in workout_programs' : n.id = g.id
  /\ workout_sessions \subseteq workout_sessions'
  /\ workout_exercises \subseteq workout_exercises'
  /\ \A d \in ai_workout_decisions' \ ai_workout_decisions :
       /\ wresponse'.op = "generateProgram" /\ wresponse'.status = HTTP_OK
       /\ d.program_id = wresponse'.programId
C26_NoRollback ==
  [][C26_FailureKeepsRows]_vars /\ [][C26_NothingRemoved]_vars

\* a generation of "Strength" failed after its program row, its Monday
\* session and both exercises of that session were written
C26_Witness ==
  /\ wresponse.op = "generateProgram" /\ wresponse.status = HTTP_INTERNAL
  /\ wresponse.writes = 4
  /\ \E g \in workout_programs : g.id = wresponse.programId
  /\ \E s \in workout_sessions :
       /\ s.program_id = wresponse.programId
       /\ Cardinality(ExercisesOf(s)) = 2
  /\ \A d \in ai_workout_decisions : d.program_id # wresponse.programId

\* C27: in every state in which no completeSession request is in flight,
\* every completed session has a row of muscle_balance_history of its owner
\* for that session.
C27_CompletedHasRecord ==
  (\A p \in Procs : wreq[p].op # "completeSession") =>
    \A ws \in workout_sessions :
      ws.completion_status = "completed" =>
        \E rec \in muscle_balance_history :
          rec.clerk_id = ws.clerk_id /\ rec.session_id = ws.id

\* ------------------------------------------------------------------
\* createWorkoutProgram: the reps and restSeconds of a generated exercise
\* ------------------------------------------------------------------
\* A text is a sequence of characters.  A value of the generated JSON is a
\* text (kind "string"), a number given in tenths (kind "number"; 75 is 7.5)
\* or absent (kind "absent": undefined or null).

MaxTextLen == 4

\* the characters of the enumerated texts
Chars == {"0", "1", "8", "-", " ", "r"}

DigitChars == {"0", "1", "2", "3", "4", "5", "6", "7", "8", "9"}

DigitValue(c) ==
  CASE c = "0" -> 0 [] c = "1" -> 1 [] c = "2" -> 2 [] c = "3" -> 3
    [] c = "4" -> 4 [] c = "5" -> 5 [] c = "6" -> 6 [] c = "7" -> 7
    [] c = "8" -> 8 [] c = "9" -> 9

\* parseInt of a run of digits
RECURSIVE parseInt(_)
parseInt(digits) ==
  IF digits = <<>> THEN 0
  ELSE 10 * parseInt(SubSeq(digits, 1, Len(digits) - 1))
         + DigitValue(digits[Len(digits)])

\* String.prototype.toLowerCase, for the letters of the texts
ToLowerChar(c) ==
  CASE c = "A" -> "a" [] c = "M" -> "m" [] c = "R" -> "r" [] c = "P" -> "p"
    [] c = "S" -> "s" [] c = "N" -> "n" [] c = "Y" -> "y" [] OTHER -> c
toLowerCase(text) == [k \in DOMAIN text |-> ToLowerChar(text[k])]

\* String.prototype.includes
includes(text, part) ==
  \E i \in 1..(Len(text) - Len(part) + 1) :
    SubSeq(text, i, i + Len(part) - 1) = part

\* the last position of the run of digits that starts at position i
RunEnd(text, i) ==
  CHOOSE e \in i..Len(text) :
    /\ \A k \in i..e : text[k] \in DigitChars
    /\ e = Len(text) \/ text[e + 1] \notin DigitChars

\* text.match(/(\d+)/): the first run of digits, <<>> when there is none
MatchDigits(text) ==
  LET starts == {i \in DOMAIN text : text[i] \in DigitChars}
  IN IF starts = {} THEN <<>>
     ELSE LET i == CHOOSE j \in starts : \A o \in starts : j <= o
          IN SubSeq(text, i, RunEnd(text, i))

\* text.match(/(\d+)-(\d+)/): the two groups of the leftmost match, <<>>
\* when there is none
MatchRange(text) ==
  LET starts == {i \in DOMAIN text :
                   /\ text[i] \in DigitChars
                   /\ RunEnd(text, i) + 2 <= Len(text)
                   /\ text[RunEnd(text, i) + 1] = "-"
                   /\ text[RunEnd(text, i) + 2] \in DigitChars}
  IN IF starts = {} THEN <<>>
     ELSE LET i == CHOOSE j \in starts : \A o \in starts : j <= o
              e == RunEnd(text, i)
          IN <<SubSeq(text, i, e), SubSeq(text, e + 2, RunEnd(text, e + 2))>>

\* Math.round((min + max) / 2) of two non-negative integers
RoundedMean(min, max) == (min + max + 1) \div 2

Text(t) == [kind |-> "string", text |-> t, tenths |-> 0]
Number(tenths) == [kind |-> "number", text |-> <<>>, tenths |-> tenths]
Absent == [kind |-> "absent", text |-> <<>>, tenths |-> 0]

\* Number.isInteger(v) && v >= least, for a value that is a number
IntegerAtLeast(v, least) ==
  v.kind = "number" /\ v.tenths % 10 = 0 /\ v.tenths >= 10 * least

\* the reps stored for exercise.reps
NormalizeReps(reps) ==
  LET parsed ==
        IF reps.kind = "string"
          THEN IF \/ includes(toLowerCase(reps.text),
                              <<"a", "s", " ", "m", "a", "n", "y">>)
                  \/ includes(toLowerCase(reps.text),
                              <<"a", "m", "r", "a", "p">>)
                 THEN Number(120)
               ELSE IF includes(reps.text, <<"-">>)
                 THEN LET rangeMatch == MatchRange(reps.text)
                      IN IF rangeMatch # <<>>
                           THEN Number(10 * RoundedMean(parseInt(rangeMatch[1]),
                                                        parseInt(rangeMatch[2])))
                           ELSE Number(100)
               ELSE LET repsMatch == MatchDigits(reps.text)
                    IN IF repsMatch # <<>>
                         THEN Number(10 * parseInt(repsMatch))
                         ELSE Number(100)
          ELSE reps
  IN IF IntegerAtLeast(parsed, 1) THEN parsed.tenths \div 10 ELSE 10

\* exercise.restSeconds || 60: 0, "" and an absent value are falsy
OrSixty(v) ==
  IF \/ v.kind = "absent"
     \/ v.kind = "number" /\ v.tenths = 0
     \/ v.kind = "string" /\ v.text = <<>>
    THEN Number(600)
    ELSE v

\* the rest_seconds stored for exercise.restSeconds
NormalizeRest(rest) ==
  LET restSeconds == OrSixty(rest)
      parsed ==
        IF restSeconds.kind = "string"
          THEN LET restMatch == MatchDigits(restSeconds.text)
               IN IF restMatch # <<>>
                    THEN Number(10 * parseInt(restMatch))
                    ELSE Number(600)
          ELSE restSeconds
  IN IF IntegerAtLeast(parsed, 0) THEN parsed.tenths \div 10 ELSE 60

\* the values of reps and restSeconds the normalization is applied to
PhraseTexts ==
  {<<"A", "M", "R", "A", "P">>,
   <<"a", "m", "r", "a", "p", " ", "8">>,
   <<"A", "s", " ", "m", "a", "n", "y">>,
   <<"8", "-", "1", "1", " ", "A", "M", "R", "A", "P">>}
NumberInputs == {-50, 0, 5, 10, 75, 120, 600}
NormalizeInputs ==
  {Text(t) : t \in UNION {[1..k -> Chars] : k \in 0..MaxTextLen}}
    \cup {Text(t) : t \in PhraseTexts}
    \cup {Number(n) : n \in NumberInputs}
    \cup {Absent}

InitNormalize ==
  /\ NoQuests /\ NoAnalysis
  /\ started = 0
  /\ NoWorkoutRequests
  /\ call \in [fn : {"reps", "restSeconds"}, value : NormalizeInputs]
  /\ result = NotCalled

\* let reps = exercise.reps ... (the value of the INSERT)
Reps_Call ==
  /\ call.fn = "reps" /\ result = NotCalled
  /\ result' = [fn |-> "reps", stored |-> NormalizeReps(call.value)]
  /\ UNCHANGED <<questVars, analysisVars, started, workoutTables, wreq,
                 wresponse, today, call>>

\* let restSeconds = exercise.restSeconds || 60 ... (the value of the INSERT)
Rest_Call ==
  /\ call.fn = "restSeconds" /\ result = NotCalled
  /\ result' = [fn |-> "restSeconds", stored |-> NormalizeRest(call.value)]
  /\ UNCHANGED <<questVars, analysisVars, started, workoutTables, wreq,
                 wresponse, today, call>>

NextNormalize == Reps_Call \/ Rest_Call

SpecNormalize == InitNormalize /\ [][NextNormalize]_vars

\* the text has the AMRAP / 'as many' phrasing
IsAmrap(text) ==
  \/ includes(toLowerCase(text), <<"a", "m", "r", "a", "p">>)
  \/ includes(toLowerCase(text), <<"a", "s", " ", "m", "a", "n", "y">>)

\* the first run of digits of the text follows a minus sign (the text can be
\* read as embedding a negative integer)
Signed(text) ==
  \E i \in DOMAIN text :
    /\ text[i] = "-" /\ i < Len(text) /\ text[i + 1] \in DigitChars
    /\ \A k \in 1..(i - 1) : text[k] \notin DigitChars

\* n when it is a positive integer, the default otherwise
PositiveOr(n, default) == IF n >= 1 THEN n ELSE default

\* C28: the stored reps is a positive integer; for a text it is 12 when the
\* text has the AMRAP / 'as many' phrasing, else round((A+B)/2) when the text
\* holds a range A-B, else the first integer the text embeds, and 10 only
\* when the text embeds no integer or the value so extracted is not
\* positive (a first integer that follows a minus sign may count as not
\* positive).
C28_RepsNormalized ==
  result.fn = "reps" =>
    /\ result.stored \in Nat /\ result.stored >= 1
    /\ call.value.kind = "string" =>
         LET text == call.value.text
         IN \/ result.stored =
                 IF IsAmrap(text) THEN 12
                 ELSE IF MatchRange(text) # <<>>
                   THEN PositiveOr(RoundedMean(parseInt(MatchRange(text)[1]),
                                               parseInt(MatchRange(text)[2])),
                                   10)
                 ELSE IF MatchDigits(text) # <<>>
                   THEN PositiveOr(parseInt(MatchDigits(text)), 10)
                 ELSE 10
            \/ /\ ~IsAmrap(text) /\ MatchRange(text) = <<>> /\ Signed(text)
               /\ result.stored = 10

\* C29: the stored rest_seconds is a non-negative integer; it is the supplied
\* number when that is a non-negative integer (0 is stored as 0), the first
\* integer a supplied text embeds, and 60 when the value is absent, negative
\* (a text whose first integer follows a minus sign may count as negative) or
\* a text without an integer.
C29_RestNormalized ==
  result.fn = "restSeconds" =>
    /\ result.stored \in Nat
    /\ call.value.kind = "absent" => result.stored = 60
    /\ (call.value.kind = "number" /\ call.value.tenths % 10 = 0) =>
         result.stored = IF call.value.tenths >= 0
                           THEN call.value.tenths \div 10 ELSE 60
    /\ call.value.kind = "string" =>
         LET digits == MatchDigits(call.value.text)
         IN \/ result.stored = IF digits = <<>> THEN 60 ELSE parseInt(digits)
            \/ Signed(call.value.text) /\ result.stored = 60

\* the lookup of generation request r missed the cache and the search gave
\* no video
SearchFailed(r) ==
  r.op = "generateProgram" /\ r.search \in SearchOutcomes \ VideoIds

\* C30: a lookup of a generation that misses the cache and gets no video from
\* the search (no API key, a non-2xx reply, an empty reply or an exception)
\* changes no table, the cache included, and leaves the request at the INSERT
\* the lookup was for, with no video; when that INSERT runs, the session or
\* exercise row it adds has a null video reference and the request goes on
\* to the next lookup or, after the last item, to the audit row.
C30_LookupStep ==
  \A p \in Procs :
    (wreq[p].pc = "video" /\ wreq'[p] # wreq[p] /\ SearchFailed(wreq'[p])) =>
      /\ wreq'[p].pc =
           IF wreq[p].lookup = "warmup" THEN "session" ELSE "exercise"
      /\ wreq'[p].video = "null"
      /\ wresponse' = NoWorkoutResponse
      /\ UNCHANGED workoutTables
C30_InsertStep ==
  \A p \in Procs :
    (/\ SearchFailed(wreq[p]) /\ wreq'[p] # wreq[p]
     /\ wresponse'.status # HTTP_INTERNAL) =>
      /\ wreq'[p].op = "generateProgram"
      /\ wreq'[p].pc \in {"video", "audit"}
      /\ wreq'[p].writes = wreq[p].writes + 1
      /\ IF wreq[p].lookup = "warmup"
           THEN \E s \in workout_sessions' \ workout_sessions :
                  /\ s.program_id = wreq[p].programId
                  /\ s.warm_up_video_url = "null"
           ELSE \E e \in workout_exercises' \ workout_exercises :
                  /\ e.workout_session_id = wreq[p].sessionId
                  /\ e.video_url = "null"
C30_AtInsert ==
  \A p \in Procs :
    SearchFailed(wreq[p]) =>
      wreq[p].pc \in {"session", "exercise"} /\ wreq[p].video = "null"
C30_LookupFailureTolerated ==
  [][C30_LookupStep]_vars /\ [][C30_InsertStep]_vars /\ []C30_AtInsert

\* a generation completed although the search answered its last lookup with
\* a non-2xx reply: the exercise row has no video and the cache no entry for
\* the name
C30_Witness ==
  /\ wresponse.op = "generateProgram" /\ wresponse.status = HTTP_OK
  /\ \E s \in workout_sessions :
       /\ s.program_id = wresponse.programId
       /\ s.warm_up_video_url # "null"
       /\ \E e \in ExercisesOf(s) :
            e.exercise_name = "Row" /\ e.video_url = "null"
  /\ \A c \in exercise_video_cache : c.exercise_name # "row"

====
